---- MODULE Spec2Model ----
(***************************************************************************)
(* Model of the financial dashboard's extraction-to-validated-dataset      *)
(* pipeline: app.py (bootstrap gate and dataset validator) and             *)
(* src/extraction/pipeline.py (LLMExtractionPipeline).                     *)
(***************************************************************************)
EXTENDS Integers, Sequences, FiniteSets, TLC

VARIABLES
    pc,          \* position of the running program (app.main, or the test at hand)
    file,        \* content of data/processed/financial_data.csv
    validation,  \* (is_valid, error_message) of the last validate_data_structure call
    edit,        \* the last change made to the input from outside the program
    edits,       \* number of such changes so far
    raw,         \* the raw data directory: per symbol, its documents
    args,        \* main: the command-line flags
    project,     \* which parts of the project structure exist
    data_exists, \* main: the local data_exists
    validated,   \* the file content the last validate_data_structure call read
    answers,     \* the operator's answers to the prompts of main, in order
    runs,        \* number of calls of LLMExtractionPipeline.run by main
    launched,    \* the consumer main has started
    exit_code,   \* the exit code of the process once it has ended
    ppc,         \* position inside LLMExtractionPipeline.run
    pl_pages,    \* run: pl_pages_rexp and pl_pages_dipd, by symbol
    idx,         \* llm_data_extraction: the loop variable index
    awaiting,    \* a request is with the LLM and its response has not come
    requests,    \* every message handed to client.messages.create, in order
    responses,   \* run: responses_dipd and responses_rexp, by symbol
    parsed_data, \* run: parsed_dipd_data and parsed_rexp_data, by symbol
    run_df,      \* run: the assembled DataFrame df
    raised,      \* the exception that left run, and the call that raised it
    printed      \* what parse_llm_extraction_response printed

vars == <<pc, file, validation, edit, edits, raw, args, project, data_exists,
          validated, answers, runs, launched, exit_code, ppc, pl_pages, idx, awaiting,
          requests, responses, parsed_data, run_df, raised, printed>>

\* what belongs to one execution of app.main
mainVars == <<args, project, data_exists, validated, answers, runs, launched, exit_code>>
\* what run never touches
outsideRun == <<pc, validation, edit, edits, raw, mainVars>>
\* what belongs to one call of run
runVars == <<ppc, pl_pages, idx, awaiting, requests, responses, parsed_data, run_df,
             raised, printed>>

\* the two supported companies, pipeline.py 47-50 and 116-117
Symbols == {"REXP", "DIPD"}

NotRaised == [exc |-> "none", at |-> "none"]
EmptyTarget == [index |-> <<>>, simbol |-> <<>>, file_name |-> <<>>, target_page |-> <<>>]
NoFrame == [columns |-> <<>>, rows |-> <<>>, index |-> <<>>]

\* the locals of run before its first statement
RunFresh ==
    /\ pl_pages = [s \in Symbols |-> EmptyTarget]
    /\ idx = 0
    /\ awaiting = FALSE
    /\ requests = <<>>
    /\ responses = [s \in Symbols |-> <<>>]
    /\ parsed_data = [s \in Symbols |-> <<>>]
    /\ run_df = NoFrame
    /\ raised = NotRaised
    /\ printed = <<>>

\* run is not running
RunIdle == ppc = "idle" /\ RunFresh

\* app.main is not running
NotValidated == [kind |-> "none"]
MainIdle ==
    /\ args = [cli |-> FALSE, force |-> FALSE]
    /\ project = [pipeline_script |-> TRUE, raw_dir |-> TRUE]
    /\ data_exists = FALSE
    /\ validated = NotValidated
    /\ answers = <<>>
    /\ runs = 0
    /\ launched = "none"
    /\ exit_code = "none"

\* a raw data directory without documents
EmptyRaw == [s \in Symbols |-> [exists |-> TRUE, files |-> <<>>]]

(***************************************************************************)
(* Bounds of the model.                                                    *)
(***************************************************************************)
MaxRows == 4     \* rows of a table the validator specification starts from
MaxEdits == 2    \* changes applied to such a table
MaxPairs == 2    \* members of an object the LLM answers with
MaxWords == 2    \* words of a prose answer
MaxDocs == 3     \* documents in the raw data directory, both companies together
MaxPages == 2    \* pages of these documents together
MaxRecords == 2  \* parsed records handed to the assembly, both companies together
MaxRuns == 2     \* runs of the pipeline script one after another
MaxReports == 2  \* reports of one company under a working directory

(***************************************************************************)
(* app.py: the dataset validator.                                          *)
(***************************************************************************)
\* required_columns, app.py 55-59
RequiredColumns ==
    {"Simbol", "file_name", "Revenue", "Cost of Goods Sold (COGS)",
     "Gross Profit", "Operating Expenses", "Operating Income",
     "Net Income", "Report Date"}

\* valid_companies, app.py 75
ValidCompanies == {"REXP", "DIPD"}

\* numeric_columns, app.py 81-82 (a list: the loop visits it in this order)
NumericColumns ==
    <<"Revenue", "Cost of Goods Sold (COGS)", "Gross Profit",
      "Operating Expenses", "Operating Income", "Net Income">>

\* the row minimum of app.py 95
MinRecords == 4

None == [msg |-> "None", arg |-> {}]
NoResult == [is_valid |-> FALSE, error_message |-> [msg |-> "(not run)", arg |-> {}]]
Ok == [is_valid |-> TRUE, error_message |-> None]
Fail(m, a) == [is_valid |-> FALSE, error_message |-> [msg |-> m, arg |-> a]]

\* A file that is no table: it does not exist, or it holds zero bytes.
AbsentFile == [kind |-> "absent"]
ZeroByteFile == [kind |-> "zero-byte"]
\* A file with bytes in it that pd.read_csv cannot read as a table
UnreadableFile(error) == [kind |-> "unreadable", error |-> error]

\* A table file as pd.read_csv turns it into a DataFrame: the header's column
\* names, the Simbol cell of every row (one entry per row), the dtype inferred
\* for each monetary column, and whether every Report Date cell parses.
CsvFile(columns, simbol, dtype, dates_parse) ==
    [kind |-> "csv", columns |-> columns, simbol |-> simbol,
     dtype |-> dtype, dates_parse |-> dates_parse]

Range(s) == {s[i] : i \in DOMAIN s}

\* len(df), app.py 66 and 95
DfLen(df) == Len(df.simbol)

\* required_columns - set(df.columns), app.py 70
MissingColumns(df) == RequiredColumns \ df.columns

\* set(df['Simbol'].unique()), app.py 76
ActualCompanies(df) == Range(df.simbol)

CompaniesBoth(df) == ActualCompanies(df) = ValidCompanies
\* actual_companies.issubset(valid_companies), app.py 77
CompaniesValid(df) == ActualCompanies(df) \subseteq ValidCompanies

\* pd.api.types.is_numeric_dtype(df[col]), app.py 85
IsNumericDtype(df, col) == df.dtype[col] \in {"int64", "float64"}

\* the first column of numeric_columns that is not numeric, app.py 84-86
FirstNonNumeric(df) ==
    LET bad == {i \in DOMAIN NumericColumns : ~IsNumericDtype(df, NumericColumns[i])}
    IN  IF bad = {} THEN 0 ELSE CHOOSE i \in bad : \A j \in bad : i <= j

\* len(df) < 4, app.py 95
TooFewRecordsLoose(df) == DfLen(df) < MinRecords - 1
TooFewRecordsNever(df) == FALSE
TooFewRecords(df) == DfLen(df) < MinRecords

\* The checks on the DataFrame, app.py 65-98, in the order the code runs them.
ValidateDfColumnsFirst(df) ==
    IF MissingColumns(df) # {} THEN Fail("Missing required columns", MissingColumns(df))
    ELSE IF DfLen(df) = 0 THEN Fail("Data file is empty", {})
    ELSE IF ~CompaniesValid(df)
        THEN Fail("Invalid companies found", ActualCompanies(df) \ ValidCompanies)
    ELSE IF FirstNonNumeric(df) # 0
        THEN Fail("Column should be numeric", {NumericColumns[FirstNonNumeric(df)]})
    ELSE IF ~df.dates_parse THEN Fail("Report Date column has invalid date format", {})
    ELSE IF TooFewRecords(df)
        THEN Fail("Insufficient data records (minimum 4 records required)", {})
    ELSE Ok
ValidateDf(df) ==
    IF DfLen(df) = 0 THEN Fail("Data file is empty", {})
    ELSE IF MissingColumns(df) # {}
        THEN Fail("Missing required columns", MissingColumns(df))
    ELSE IF ~CompaniesValid(df)
        THEN Fail("Invalid companies found", ActualCompanies(df) \ ValidCompanies)
    ELSE IF FirstNonNumeric(df) # 0
        THEN Fail("Column should be numeric", {NumericColumns[FirstNonNumeric(df)]})
    ELSE IF ~df.dates_parse THEN Fail("Report Date column has invalid date format", {})
    ELSE IF TooFewRecords(df)
        THEN Fail("Insufficient data records (minimum 4 records required)", {})
    ELSE Ok

\* validate_data_structure(file_path), app.py 48-101: pd.read_csv raises for a
\* missing file (FileNotFoundError), for a file without a header
\* (EmptyDataError), and for bytes that are no text or no table
\* (UnicodeDecodeError, ParserError); the outer except Exception, app.py 100,
\* turns each into a failure reason.
read_csv_error(f) ==
    CASE f.kind = "absent" -> "FileNotFoundError"
      [] f.kind = "zero-byte" -> "EmptyDataError"
      [] f.kind = "unreadable" -> f.error
      [] OTHER -> "none"

\* the classes except Exception catches, of those pd.read_csv raises
CaughtOnlyMissingFile(exc) == exc = "FileNotFoundError"
CaughtByExceptException(exc) ==
    exc \in {"FileNotFoundError", "EmptyDataError", "ParserError", "UnicodeDecodeError"}

\* an exception that leaves validate_data_structure: no pair is returned
Escaped(exc) == [is_valid |-> FALSE, error_message |-> [msg |-> "(raised)", arg |-> {exc}]]

validate_data_structure(f) ==
    LET exc == read_csv_error(f) IN
    IF exc = "none" THEN ValidateDf(f)
    ELSE IF CaughtByExceptException(exc) THEN Fail("Error reading data file", {exc})
    ELSE Escaped(exc)

(***************************************************************************)
(* src/extraction/pipeline.py: the page locator.                           *)
(*                                                                         *)
(* A path and a file name are sequences of pieces of text, a page's text   *)
(* is its sequence of words.                                               *)
(***************************************************************************)
\* self.raw_data_path, pipeline.py 16: the working directory, then \data\raw\
RawDataPath == <<"C:", "\\", "app", "\\", "data", "\\", "raw", "\\">>

\* the path list_all_files builds for a file of a symbol, pipeline.py 30-32
PathOf(simbol, name) == RawDataPath \o <<"\\", simbol, "\\">> \o name

\* data_path for the working directory cwd, pipeline.py 16
raw_data_path(cwd) == cwd \o <<"\\", "data", "\\", "raw", "\\">>

\* the path of list_all_files, pipeline.py 30-32, when the script is started
\* in the working directory cwd
PathUnder(cwd, simbol, name) == raw_data_path(cwd) \o <<"\\", simbol, "\\">> \o name

\* map_page_simbol, pipeline.py 47-50
MarkerSwapped(simbol) ==
    IF simbol = "DIPD" THEN <<"Consolidated", "Income", "Statements">>
    ELSE <<"STATEMENT", "OF", "PROFIT", "OR", "LOSS">>
MarkerOf(simbol) ==
    IF simbol = "REXP" THEN <<"Consolidated", "Income", "Statements">>
    ELSE <<"STATEMENT", "OF", "PROFIT", "OR", "LOSS">>

\* marker in page.extract_text(), pipeline.py 58
Contains(text, marker) ==
    \E i \in 1..(Len(text) - Len(marker) + 1) :
        SubSeq(text, i, i + Len(marker) - 1) = marker

\* financial_file[financial_file.find(simbol)+5:], pipeline.py 60: what follows
\* the first occurrence of the symbol and one more character
FileNameOf(path, simbol) ==
    LET at == {k \in DOMAIN path : path[k] = simbol}
        first == CHOOSE k \in at : \A j \in at : k <= j
    IN  SubSeq(path, first + 2, Len(path))

\* the pages of one document that hold the marker, pipeline.py 56-61
MatchingPages(simbol, pages) ==
    SelectSeq(pages, LAMBDA page : Contains(page, MarkerOf(simbol)))

Repeat(x, n) == [i \in 1..n |-> x]

\* a loop that notes the index with every matching page
RECURSIVE ExtractLoopPerPage(_, _, _, _)
ExtractLoopPerPage(simbol, files, k, target) ==
    IF k > Len(files) THEN target
    ELSE LET hits == MatchingPages(simbol, files[k].pages)
             name == FileNameOf(files[k].path, simbol)
         IN  ExtractLoopPerPage(simbol, files, k + 1,
                 [index |-> target.index \o Repeat(k - 1, Len(hits)),
                  simbol |-> target.simbol \o Repeat(simbol, Len(hits)),
                  file_name |-> target.file_name \o Repeat(name, Len(hits)),
                  target_page |-> target.target_page \o hits])

\* the loop over the documents, pipeline.py 51-63, from document k on
RECURSIVE ExtractLoop(_, _, _, _)
ExtractLoop(simbol, files, k, target) ==
    IF k > Len(files) THEN target
    ELSE LET hits == MatchingPages(simbol, files[k].pages)
             name == FileNameOf(files[k].path, simbol)
         IN  ExtractLoop(simbol, files, k + 1,
                 [index |-> Append(target.index, k - 1),
                  simbol |-> target.simbol \o Repeat(simbol, Len(hits)),
                  file_name |-> target.file_name \o Repeat(name, Len(hits)),
                  target_page |-> target.target_page \o hits])

\* extract_pl_pages(simbol), pipeline.py 37-64, on the files list_all_files gave
extract_pl_pages(simbol, files) == ExtractLoop(simbol, files, 1, EmptyTarget)

Raise(exc, here) ==
    /\ raised' = [exc |-> exc, at |-> here]
    /\ ppc' = "raised"

\* pl_pages_rexp = self.extract_pl_pages('REXP') and the same for DIPD,
\* pipeline.py 116-117; list_all_files raises BaseException for a symbol
\* without directory, pipeline.py 33-35.
ExtractPagesLenient(s, here, next) ==
    /\ ppc = here
    /\ pl_pages' = [pl_pages EXCEPT ![s] = extract_pl_pages(s, raw[s].files)]
    /\ ppc' = next
    /\ UNCHANGED <<file, idx, awaiting, requests, responses, parsed_data, run_df, raised,
                   printed>>
    /\ UNCHANGED outsideRun
ExtractPages(s, here, next) ==
    /\ ppc = here
    /\ IF raw[s].exists
       THEN /\ pl_pages' = [pl_pages EXCEPT ![s] = extract_pl_pages(s, raw[s].files)]
            /\ ppc' = next
            /\ UNCHANGED raised
       ELSE /\ Raise("BaseException: Simbol not found", here)
            /\ UNCHANGED pl_pages
    /\ UNCHANGED <<file, idx, awaiting, requests, responses, parsed_data, run_df, printed>>
    /\ UNCHANGED outsideRun

ExtractRexp == ExtractPages("REXP", "extract_rexp", "extract_dipd")
ExtractDipd == ExtractPages("DIPD", "extract_dipd", "llm_dipd")

(***************************************************************************)
(* src/extraction/pipeline.py: the extraction client.                      *)
(***************************************************************************)
Tok(t, v) == [t |-> t, v |-> v]
LBRACE == Tok("punct", <<"{">>)
RBRACE == Tok("punct", <<"}">>)
COLON == Tok("punct", <<":">>)
COMMA == Tok("punct", <<",">>)
NEWLINE == Tok("nl", <<"\n">>)
\* The three backtick characters of a code fence, written out: the module's
\* lexer does not take the character itself.
Backticks == "<three backticks>"
FENCE == Tok("raw", <<Backticks>>)  \* the code-fence marker
TAG == Tok("name", <<"json">>)      \* the language tag after the opening fence
Str(v) == Tok("str", v)             \* a quoted string
Num(n) == Tok("num", <<n>>)         \* a number
Word(w) == Tok("name", <<w>>)       \* a bare word

RECURSIVE JoinMembers(_, _)
JoinMembers(ms, i) ==
    IF i > Len(ms) THEN <<>>
    ELSE <<ms[i][1], COLON, ms[i][2]>>
         \o (IF i < Len(ms) THEN <<COMMA>> ELSE <<>>)
         \o JoinMembers(ms, i + 1)

\* the object text with the members ms, as JSON writes it
Render(ms) == <<LBRACE>> \o JoinMembers(ms, 1) \o <<RBRACE>>

\* text inside a code fence, with the language tag or without
Fenced(text, tagged) ==
    <<FENCE>> \o (IF tagged THEN <<TAG>> ELSE <<>>) \o <<NEWLINE>>
    \o text \o <<NEWLINE, FENCE>>

\* The message of pipeline.py 78-83 for position i of the batch: value[index]
\* of every list of pages.
MessageOf(pages, i) ==
    [index |-> pages.index[i], simbol |-> pages.simbol[i],
     file_name |-> pages.file_name[i], target_page |-> pages.target_page[i]]

\* the number of turns of the loop, pipeline.py 77
LoopTurns(pages) == Len(pages.index)

\* The answers of the LLM to a message: the object the system prompt asks for
\* (constants.py 59-69), the same inside a code fence, or prose.
AnswerObject(m) ==
    Render(<< <<Str(<<"index">>), Num(ToString(m.index))>>,
              <<Str(<<"Simbol">>), Str(<<m.simbol>>)>>,
              <<Str(<<"file_name">>), Str(m.file_name)>>,
              <<Str(<<"Revenue">>), Num("2767931")>>,
              <<Str(<<"Cost of Goods Sold (COGS)">>), Num("-1735091")>>,
              <<Str(<<"Gross Profit">>), Num("1032840")>>,
              <<Str(<<"Operating Expenses">>), Num("-580822")>>,
              <<Str(<<"Operating Income">>), Num("458611")>>,
              <<Str(<<"Net Income">>), Num("991673")>> >>)
AnswerProse == <<Word("Sorry"), Word("no"), Word("statement")>>
Answers(m) == {AnswerObject(m), Fenced(AnswerObject(m), TRUE), AnswerProse}

\* One turn of the loop of llm_data_extraction up to the call of the client,
\* pipeline.py 77-90: value[index] raises IndexError when a list is shorter
\* than the index list.
LlmSend(s, here) ==
    /\ ppc = here /\ ~awaiting
    /\ idx < LoopTurns(pl_pages[s])
    /\ IF idx + 1 <= Len(pl_pages[s].simbol)
       THEN /\ requests' = Append(requests, MessageOf(pl_pages[s], idx + 1))
            /\ awaiting' = TRUE
            /\ UNCHANGED <<ppc, raised>>
       ELSE /\ Raise("IndexError", here)
            /\ UNCHANGED <<requests, awaiting>>
    /\ UNCHANGED <<file, pl_pages, idx, responses, parsed_data, run_df, printed>>
    /\ UNCHANGED outsideRun

\* the client returns: responses.append(response.content[0].text), pipeline.py 91
LlmReceive(s, here) ==
    /\ ppc = here /\ awaiting
    /\ \E text \in Answers(requests[Len(requests)]) :
           responses' = [responses EXCEPT ![s] = Append(@, text)]
    /\ idx' = idx + 1
    /\ awaiting' = FALSE
    /\ UNCHANGED <<file, ppc, pl_pages, requests, parsed_data, run_df, raised, printed>>
    /\ UNCHANGED outsideRun

\* a client call that fails and is made again in the same turn of the loop
LlmFailsRetrying(s, here) ==
    /\ ppc = here /\ awaiting
    /\ awaiting' = FALSE
    /\ UNCHANGED <<file, ppc, pl_pages, idx, requests, responses, parsed_data, run_df,
                   raised, printed>>
    /\ UNCHANGED outsideRun

\* the client raises (network, authentication, quota): nothing catches it
LlmFails(s, here) ==
    /\ ppc = here /\ awaiting
    /\ Raise("anthropic.APIError", here)
    /\ awaiting' = FALSE
    /\ UNCHANGED <<file, pl_pages, idx, requests, responses, parsed_data, run_df, printed>>
    /\ UNCHANGED outsideRun

\* the loop is over: return responses, pipeline.py 93
LlmReturn(s, here, next) ==
    /\ ppc = here /\ ~awaiting
    /\ idx >= LoopTurns(pl_pages[s])
    /\ ppc' = next
    /\ idx' = 0
    /\ UNCHANGED <<file, pl_pages, awaiting, requests, responses, parsed_data, run_df,
                   raised, printed>>
    /\ UNCHANGED outsideRun

\* responses_dipd, then responses_rexp, pipeline.py 120-123
LlmSendDipd == LlmSend("DIPD", "llm_dipd")
LlmReceiveDipd == LlmReceive("DIPD", "llm_dipd")
LlmFailsDipd == LlmFails("DIPD", "llm_dipd")
LlmReturnDipd == LlmReturn("DIPD", "llm_dipd", "llm_rexp")
LlmSendRexp == LlmSend("REXP", "llm_rexp")
LlmReceiveRexp == LlmReceive("REXP", "llm_rexp")
LlmFailsRexp == LlmFails("REXP", "llm_rexp")
LlmReturnRexp == LlmReturn("REXP", "llm_rexp", "parse_dipd")

(***************************************************************************)
(* src/extraction/pipeline.py: the response parser.                        *)
(*                                                                         *)
(* A text is a sequence of tokens, a token a kind and the pieces of text   *)
(* it is written with.  str.replace works on the pieces, so a piece        *)
(* "json" or a fence marker inside a quoted string is removed like one     *)
(* outside.                                                                *)
(***************************************************************************)
\* data.replace(old, empty string), pipeline.py 101: every occurrence of old goes; a
\* token other than a quoted string that loses all its text is gone.
StrReplace(text, old) ==
    LET cut(tok) == [tok EXCEPT !.v = SelectSeq(@, LAMBDA piece : piece # old)]
        cleaned == [i \in DOMAIN text |-> cut(text[i])]
    IN  SelectSeq(cleaned, LAMBDA tok : tok.t = "str" \/ tok.v # <<>>)

\* parsed: both replace calls of pipeline.py 101, the fence marker first
StripFencesOnly(data) == StrReplace(data, Backticks)
StripFences(data) == StrReplace(StrReplace(data, Backticks), "json")

\* Values of ast.literal_eval: a kind and a content.  The content of a dict
\* is the sequence of its <<key, value>> pairs in insertion order; a value
\* given to a key already there takes the place of the earlier one.
Val(t, v) == [t |-> t, v |-> v]
EmptyMap == <<>>
Put(m, k, v) ==
    IF \E i \in DOMAIN m : m[i][1] = k
    THEN [i \in DOMAIN m |-> IF m[i][1] = k THEN <<k, v>> ELSE m[i]]
    ELSE Append(m, <<k, v>>)

POk(val, next) == [ok |-> TRUE, val |-> val, next |-> next]
PFail == [ok |-> FALSE, val |-> Val("error", <<>>), next |-> 0]

\* Python's constants among the bare words
PyConstants == {<<"None">>, <<"True">>, <<"False">>}

\* the text of the adjacent string literals toks[i..j], which Python concatenates
RECURSIVE ConcatStr(_, _, _)
ConcatStr(toks, i, j) ==
    IF i > j THEN <<>> ELSE toks[i].v \o ConcatStr(toks, i + 1, j)

StrRunEnd(toks, i) ==
    CHOOSE j \in i..Len(toks) :
        /\ \A k \in i..j : toks[k].t = "str"
        /\ j = Len(toks) \/ toks[j + 1].t # "str"

\* One expression starting at toks[i]: a string, a number, a constant, or a
\* dict or set display.  Any other start is a SyntaxError or a ValueError
\* (malformed node), both raised by ast.literal_eval.
RECURSIVE ParseValue(_, _), ParseMembers(_, _, _, _, _)
ParseValue(toks, i) ==
    IF i > Len(toks) THEN PFail
    ELSE LET tk == toks[i] IN
         CASE tk.t = "str" ->
                  LET j == StrRunEnd(toks, i)
                  IN  POk(Val("str", ConcatStr(toks, i, j)), j + 1)
           [] tk.t = "num" -> POk(Val("num", tk.v), i + 1)
           [] tk.t = "name" ->
                  IF tk.v \in PyConstants THEN POk(Val("const", tk.v), i + 1) ELSE PFail
           [] tk = LBRACE ->
                  IF i + 1 <= Len(toks) /\ toks[i + 1] = RBRACE
                  THEN POk(Val("dict", EmptyMap), i + 2)
                  ELSE ParseMembers(toks, i + 1, "either", EmptyMap, {})
           [] OTHER -> PFail

\* The members of a display after its "{": key: value pairs (a dict, a later
\* pair of a key replacing the earlier one) or single values (a set); a comma
\* may follow the last member.  A dict or set used as key or set member is
\* unhashable (TypeError).
ParseMembers(toks, i, mode, m, s) ==
    LET e == ParseValue(toks, i) IN
    IF ~e.ok \/ e.val.t \in {"dict", "set"} \/ e.next > Len(toks) THEN PFail
    ELSE IF toks[e.next] = COLON THEN
        IF mode = "set" THEN PFail
        ELSE LET v == ParseValue(toks, e.next + 1) IN
             IF ~v.ok \/ v.next > Len(toks) THEN PFail
             ELSE LET m2 == Put(m, e.val, v.val) IN
                  IF toks[v.next] = RBRACE THEN POk(Val("dict", m2), v.next + 1)
                  ELSE IF toks[v.next] # COMMA \/ v.next + 1 > Len(toks) THEN PFail
                  ELSE IF toks[v.next + 1] = RBRACE THEN POk(Val("dict", m2), v.next + 2)
                  ELSE ParseMembers(toks, v.next + 1, "dict", m2, s)
    ELSE IF mode = "dict" THEN PFail
    ELSE LET s2 == s \cup {e.val} IN
         IF toks[e.next] = RBRACE THEN POk(Val("set", s2), e.next + 1)
         ELSE IF toks[e.next] # COMMA \/ e.next + 1 > Len(toks) THEN PFail
         ELSE IF toks[e.next + 1] = RBRACE THEN POk(Val("set", s2), e.next + 2)
         ELSE ParseMembers(toks, e.next + 1, "set", m, s2)

\* expressions separated by commas at the top level make a tuple
RECURSIVE ParseTuple(_, _, _)
ParseTuple(toks, i, acc) ==
    IF i > Len(toks) THEN POk(Val("tuple", acc), i)
    ELSE LET e == ParseValue(toks, i) IN
         IF ~e.ok THEN PFail
         ELSE IF e.next > Len(toks) THEN POk(Val("tuple", Append(acc, e.val)), e.next)
         ELSE IF toks[e.next] # COMMA THEN PFail
         ELSE ParseTuple(toks, e.next + 1, Append(acc, e.val))

\* ast.literal_eval(parsed), pipeline.py 103: the whole text is one expression;
\* line breaks around and inside a display are white space.
literal_eval(text) ==
    LET toks == SelectSeq(text, LAMBDA tok : tok.t # "nl")
        e == ParseValue(toks, 1)
    IN  IF ~e.ok THEN PFail
        ELSE IF e.next > Len(toks) THEN e
        ELSE IF toks[e.next] # COMMA THEN PFail
        ELSE ParseTuple(toks, e.next + 1, <<e.val>>)

\* What a call of parse_llm_extraction_response ends with: the list returned,
\* or the exception raised, and what it printed.
Returned(datas) == [exc |-> "none", datas |-> datas, out |-> <<>>]
Raises(exc, out) == [exc |-> exc, datas |-> <<>>, out |-> out]

\* a loop that drops a response it cannot parse and goes on
RECURSIVE ParseLoopSkipping(_, _, _)
ParseLoopSkipping(resps, i, datas) ==
    IF i > Len(resps) THEN Returned(datas)
    ELSE LET parsed == StripFences(resps[i])
             e == literal_eval(parsed)
         IN  IF e.ok THEN ParseLoopSkipping(resps, i + 1, Append(datas, e.val))
             ELSE ParseLoopSkipping(resps, i + 1, datas)

\* the loop of pipeline.py 100-106 from response i on
RECURSIVE ParseLoop(_, _, _)
ParseLoop(resps, i, datas) ==
    IF i > Len(resps) THEN Returned(datas)
    ELSE LET parsed == StripFences(resps[i])
             e == literal_eval(parsed)
         IN  IF e.ok THEN ParseLoop(resps, i + 1, Append(datas, e.val))
             ELSE Raises("literal_eval error", <<parsed>>)

\* parse_llm_extraction_response(responses), pipeline.py 95-107
parse_llm_extraction_response(resps) == ParseLoop(resps, 1, <<>>)

\* parsed_dipd_data = self.parse_llm_extraction_response(responses_dipd) and
\* the same for REXP, pipeline.py 127-128: an exception leaves run.
ParseResponses(s, here, next) ==
    /\ ppc = here
    /\ LET r == parse_llm_extraction_response(responses[s]) IN
       /\ printed' = printed \o r.out
       /\ IF r.exc = "none"
          THEN /\ parsed_data' = [parsed_data EXCEPT ![s] = r.datas]
               /\ ppc' = next
               /\ UNCHANGED raised
          ELSE /\ Raise(r.exc, here)
               /\ UNCHANGED parsed_data
    /\ UNCHANGED <<file, pl_pages, idx, awaiting, requests, responses, run_df>>
    /\ UNCHANGED outsideRun

ParseDipd == ParseResponses("DIPD", "parse_dipd", "parse_rexp")
ParseRexp == ParseResponses("REXP", "parse_rexp", "assemble")

(***************************************************************************)
(* src/extraction/pipeline.py: assembling the table and saving it.         *)
(*                                                                         *)
(* A DataFrame is its column labels in order, its rows (each a function    *)
(* from the labels to cells) and its row index.  A label is a dict key, a  *)
(* cell a parsed value, NaN where a record has no such key.                *)
(***************************************************************************)
NaN == Val("nan", <<>>)
Label(name) == Val("str", <<name>>)

Res(df) == [exc |-> "none", df |-> df]
Err(exc) == [exc |-> exc, df |-> NoFrame]
Then(r, Op(_)) == IF r.exc # "none" THEN r ELSE Op(r.df)

Keys(d) == [j \in DOMAIN d.v |-> d.v[j][1]]
Get(d, k) ==
    IF k \in Range(Keys(d)) THEN (CHOOSE pair \in Range(d.v) : pair[1] = k)[2] ELSE NaN

\* the columns of pd.DataFrame(list of dicts): the keys in the order in which
\* the records bring them
RECURSIVE ColumnsOf(_, _, _)
ColumnsOf(datas, i, cols) ==
    IF i > Len(datas) THEN cols
    ELSE ColumnsOf(datas, i + 1,
             cols \o SelectSeq(Keys(datas[i]), LAMBDA k : k \notin Range(cols)))

\* pd.DataFrame(parsed data), pipeline.py 132-133; the records of the run are
\* dicts, and a list of anything else has no column the next steps ask for
DataFrame(datas) ==
    LET cols == ColumnsOf(datas, 1, <<>>) IN
    [columns |-> cols,
     rows |-> [i \in DOMAIN datas |-> [c \in Range(cols) |-> Get(datas[i], c)]],
     index |-> [i \in DOMAIN datas |-> i - 1]]

\* pd.concat((a, b)), pipeline.py 131: the rows of a, then those of b, each
\* with the index it had
Concat(a, b) ==
    LET cols == a.columns \o SelectSeq(b.columns, LAMBDA c : c \notin Range(a.columns))
        wide(row) == [c \in Range(cols) |-> IF c \in DOMAIN row THEN row[c] ELSE NaN]
    IN  [columns |-> cols,
         rows |-> [i \in DOMAIN a.rows |-> wide(a.rows[i])]
                  \o [i \in DOMAIN b.rows |-> wide(b.rows[i])],
         index |-> a.index \o b.index]

\* df.reset_index(): the index becomes the first column, named index, or
\* level_0 when there is a column index already
ResetIndex(df) ==
    LET taken == Range(df.columns)
        name == IF Label("index") \notin taken THEN Label("index") ELSE Label("level_0")
    IN  IF name \in taken THEN Err("ValueError: cannot insert level_0, already exists")
        ELSE Res([columns |-> <<name>> \o df.columns,
                  rows |-> [i \in DOMAIN df.rows |->
                               [c \in taken \cup {name} |->
                                   IF c = name THEN Val("num", <<ToString(df.index[i])>>)
                                   ELSE df.rows[i][c]]],
                  index |-> [i \in DOMAIN df.rows |-> i - 1]])

\* df.drop(name, axis=1)
Drop(df, name) ==
    IF Label(name) \notin Range(df.columns) THEN Err("KeyError: " \o name)
    ELSE LET left == Range(df.columns) \ {Label(name)} IN
         Res([df EXCEPT !.columns = SelectSeq(@, LAMBDA c : c # Label(name)),
                        !.rows = [i \in DOMAIN @ |-> [c \in left |-> @[i][c]]]])
DropIndex(df) == Drop(df, "index")
DropLevel0IfThere(df) ==
    IF Label("level_0") \in Range(df.columns) THEN Drop(df, "level_0") ELSE Res(df)
DropLevel0(df) == Drop(df, "level_0")

\* pd.concat(...).reset_index().drop('index', axis=1).drop('level_0', axis=1),
\* pipeline.py 131-134
Mount(dipd, rexp) ==
    IF \E d \in Range(dipd \o rexp) : d.t # "dict"
    THEN Err("KeyError: level_0")
    ELSE Then(Then(ResetIndex(Concat(DataFrame(dipd), DataFrame(rexp))), DropIndex),
              DropLevel0)

Digits == {"0", "1", "2", "3", "4", "5", "6", "7", "8", "9"}
DigitVal(c) == CHOOSE n \in 0..9 : ToString(n) = c
NumberOf(v) == IF Len(v) = 1 THEN DigitVal(v[1]) ELSE 10 * DigitVal(v[1]) + DigitVal(v[2])
Pad2(n) == <<ToString(n \div 10), ToString(n % 10)>>

IsLeap(y) == (y % 4 = 0 /\ y % 100 # 0) \/ y % 400 = 0
DaysIn(m, y) ==
    IF m = 2 THEN (IF IsLeap(y) THEN 29 ELSE 28)
    ELSE IF m \in {4, 6, 9, 11} THEN 30 ELSE 31

\* datetime.strptime(value, '%d%m%Y'), pipeline.py 139.  The day and the
\* month are one or two digits each, two preferred, the year is four digits;
\* the first reading the text allows is taken, and text left over, or a day
\* the month does not have, is a ValueError.
DayText(v) == (Len(v) = 2 /\ NumberOf(v) \in 1..31) \/ (Len(v) = 1 /\ NumberOf(v) \in 1..9)
MonthText(v) == (Len(v) = 2 /\ NumberOf(v) \in 1..12) \/ (Len(v) = 1 /\ NumberOf(v) \in 1..9)
ReadingsShortFirst == << <<1, 1>>, <<1, 2>>, <<2, 1>>, <<2, 2>> >>
Readings == << <<2, 2>>, <<2, 1>>, <<1, 2>>, <<1, 1>> >>
Reads(v, r) ==
    /\ Len(v) >= r[1] + r[2] + 4
    /\ \A i \in 1..(r[1] + r[2] + 4) : v[i] \in Digits
    /\ DayText(SubSeq(v, 1, r[1]))
    /\ MonthText(SubSeq(v, r[1] + 1, r[1] + r[2]))
NoDate == [ok |-> FALSE, date |-> <<>>]
strptimeLenient(v) ==
    [ok |-> TRUE, date |-> <<"1", "9", "7", "0", "-", "0", "1", "-", "0", "1">>]
strptime(v) ==
    LET fit == {k \in DOMAIN Readings : Reads(v, Readings[k])} IN
    IF fit = {} THEN NoDate
    ELSE LET r == Readings[CHOOSE k \in fit : \A j \in fit : k <= j]
             d == NumberOf(SubSeq(v, 1, r[1]))
             m == NumberOf(SubSeq(v, r[1] + 1, r[1] + r[2]))
             yt == SubSeq(v, r[1] + r[2] + 1, r[1] + r[2] + 4)
             y == 100 * NumberOf(SubSeq(yt, 1, 2)) + NumberOf(SubSeq(yt, 3, 4))
         IN  IF Len(v) > r[1] + r[2] + 4 \/ y = 0 \/ d > DaysIn(m, y) THEN NoDate
             ELSE [ok |-> TRUE, date |-> yt \o <<"-">> \o Pad2(m) \o <<"-">> \o Pad2(d)]

\* the number a date is ordered by
DateKey(cell) ==
    LET t == cell.v IN
    10000 * (100 * NumberOf(SubSeq(t, 1, 2)) + NumberOf(SubSeq(t, 3, 4)))
    + 100 * NumberOf(SubSeq(t, 6, 7)) + NumberOf(SubSeq(t, 9, 10))

\* the loop of pipeline.py 136-141 and df['Report Date'] = dates: the column
\* file_name without the text .pdf, each value read as a date
WithDates(df) ==
    IF Label("file_name") \notin Range(df.columns) THEN Err("KeyError: file_name")
    ELSE IF \E i \in DOMAIN df.rows : df.rows[i][Label("file_name")].t # "str"
        THEN Err("TypeError: strptime() argument 1 must be str")
    ELSE LET value(i) == SelectSeq(df.rows[i][Label("file_name")].v,
                                   LAMBDA piece : piece # ".pdf")
             cols == IF Label("Report Date") \in Range(df.columns) THEN df.columns
                     ELSE Append(df.columns, Label("Report Date"))
         IN  IF \E i \in DOMAIN df.rows : ~strptime(value(i)).ok
             THEN Err("ValueError: time data does not match format")
             ELSE Res([df EXCEPT !.columns = cols,
                          !.rows = [i \in DOMAIN @ |->
                              [c \in Range(cols) |->
                                  IF c = Label("Report Date")
                                  THEN Val("date", strptime(value(i)).date)
                                  ELSE @[i][c]]]])

\* df.sort_values(['Report Date']): the orders of the rows that are ascending
\* by date; the sort is not a stable one, so rows of one date come out in any
\* order
SortOrders(df) ==
    {p \in Permutations(DOMAIN df.rows) :
        \A i, j \in DOMAIN df.rows :
            i < j => DateKey(df.rows[p[i]][Label("Report Date")])
                     <= DateKey(df.rows[p[j]][Label("Report Date")])}
Unsorted(df, p) == df
Sorted(df, p) ==
    [df EXCEPT !.rows = [i \in DOMAIN @ |-> @[p[i]]],
               !.index = [i \in DOMAIN @ |-> @[p[i]]]]

\* the statements of run between the parsing and the saving, pipeline.py
\* 130-142
Assemble ==
    /\ ppc = "assemble"
    /\ LET dated == Then(Mount(parsed_data["DIPD"], parsed_data["REXP"]), WithDates) IN
       IF dated.exc # "none"
       THEN /\ Raise(dated.exc, "assemble")
            /\ UNCHANGED run_df
       ELSE \E p \in SortOrders(dated.df) :
               LET r == Then(ResetIndex(Sorted(dated.df, p)), DropIndex) IN
               IF r.exc # "none"
               THEN /\ Raise(r.exc, "assemble")
                    /\ UNCHANGED run_df
               ELSE /\ run_df' = r.df
                    /\ ppc' = "save"
                    /\ UNCHANGED raised
    /\ UNCHANGED <<file, pl_pages, idx, awaiting, requests, responses, parsed_data, printed>>
    /\ UNCHANGED outsideRun

\* The table file df.to_csv(output_path, index=False) writes, as pd.read_csv
\* reads it back: a column is numeric when every cell of it is a number or
\* empty.
LabelText(c) == IF c.t = "str" /\ Len(c.v) = 1 THEN c.v[1] ELSE "(other)"
CellText(cell) ==
    IF cell.t \in {"str", "num"} /\ Len(cell.v) = 1 THEN cell.v[1] ELSE "(other)"
NumberTexts ==
    {"2767931", "-1735091", "1032840", "-580822", "458611", "991673", "0", "1"}
IsNumberCell(cell) ==
    \/ cell.t \in {"num", "nan"}
    \/ cell.t = "const" /\ cell.v = <<"None">>
    \/ cell.t = "str" /\ Len(cell.v) = 1 /\ cell.v[1] \in NumberTexts
InferredDtype(df, name) ==
    IF Label(name) \notin Range(df.columns) THEN "absent"
    ELSE IF \A i \in DOMAIN df.rows : IsNumberCell(df.rows[i][Label(name)])
    THEN (IF \E i \in DOMAIN df.rows : df.rows[i][Label(name)].t \notin {"num", "str"}
          THEN "float64" ELSE "int64")
    ELSE "object"
to_csv(df) ==
    CsvFile({LabelText(df.columns[i]) : i \in DOMAIN df.columns},
            [i \in DOMAIN df.rows |->
                IF Label("Simbol") \in Range(df.columns)
                THEN CellText(df.rows[i][Label("Simbol")]) ELSE "(none)"],
            [c \in Range(NumericColumns) |-> InferredDtype(df, c)],
            TRUE)

\* a save that adds the rows to those of the table that is there
SaveAppending ==
    /\ ppc = "save"
    /\ file' = (IF file.kind = "csv"
                THEN [to_csv(run_df) EXCEPT !.simbol = file.simbol \o @,
                                            !.columns = file.columns \cup @]
                ELSE to_csv(run_df))
    /\ ppc' = "done"
    /\ UNCHANGED <<pl_pages, idx, awaiting, requests, responses, parsed_data, run_df,
                   raised, printed>>
    /\ UNCHANGED outsideRun

\* os.makedirs and df.to_csv, pipeline.py 144-155: the file is written whole;
\* a write that fails raises, with the file as it was or cut short.
Save ==
    /\ ppc = "save"
    /\ \/ /\ file' = to_csv(run_df)
          /\ ppc' = "done"
          /\ UNCHANGED raised
       \/ /\ file' \in {file, ZeroByteFile}
          /\ Raise("OSError", "save")
    /\ UNCHANGED <<pl_pages, idx, awaiting, requests, responses, parsed_data, run_df,
                   printed>>
    /\ UNCHANGED outsideRun

(***************************************************************************)
(* app.py: main, the bootstrap gate.                                       *)
(***************************************************************************)
\* check_data_exists(file_path), app.py 44-46: the file exists and is not empty
check_data_existsNever(f) == FALSE
check_data_exists(f) == f.kind \notin {"absent", "zero-byte"}

\* is_valid, error_message = validate_data_structure(path), app.py 326 and 364
ValidateFile ==
    /\ validation' = validate_data_structure(file)
    /\ validated' = file

\* sys.exit(code)
Exit(code) ==
    /\ pc' = "exit"
    /\ exit_code' = code

\* what a step of main outside run leaves alone
mainFrame == <<edit, edits, raw, args, project, runVars>>

\* Step 1, app.py 276-288: data_exists, which --force makes False
CheckData ==
    /\ pc = "main"
    /\ data_exists' = (IF args.force THEN FALSE ELSE check_data_exists(file))
    /\ pc' = IF data_exists' THEN "validate" ELSE "extraction_required"
    /\ UNCHANGED <<file, validation, validated, answers, runs, launched, exit_code>>
    /\ UNCHANGED mainFrame

\* Step 1.1 up to the prompt, app.py 293-305: without the pipeline script or
\* the raw data directory main exits with code 1
RequireExtraction ==
    /\ pc = "extraction_required"
    /\ IF project.pipeline_script /\ project.raw_dir
       THEN pc' = "confirm_extract" /\ UNCHANGED exit_code
       ELSE Exit("1")
    /\ UNCHANGED <<file, validation, data_exists, validated, answers, runs, launched>>
    /\ UNCHANGED mainFrame

\* get_user_confirmation(message), app.py 103-116, once the operator has
\* typed Y or N: the answer is returned
ConfirmAnyAnswer(here, yes, no) ==
    /\ pc = here
    /\ \E answer \in {"Y", "N"} :
          /\ answers' = Append(answers, <<here, answer>>)
          /\ pc' = yes /\ UNCHANGED exit_code
    /\ UNCHANGED <<file, validation, data_exists, validated, runs, launched>>
    /\ UNCHANGED mainFrame
Confirm(here, yes, no) ==
    /\ pc = here
    /\ \E answer \in {"Y", "N"} :
          /\ answers' = Append(answers, <<here, answer>>)
          /\ IF answer = "Y" THEN pc' = yes /\ UNCHANGED exit_code ELSE Exit(no)
    /\ UNCHANGED <<file, validation, data_exists, validated, runs, launched>>
    /\ UNCHANGED mainFrame

\* Ctrl-C at a prompt: sys.exit(0), app.py 114-116
Interrupt ==
    /\ pc \in {"confirm_extract", "confirm_reextract"}
    /\ Exit("0")
    /\ UNCHANGED <<file, validation, data_exists, validated, answers, runs, launched>>
    /\ UNCHANGED mainFrame

\* should_extract, app.py 307-311: N exits with code 0
ConfirmExtract == Confirm("confirm_extract", "call_run_1", "0")
\* should_reextract, app.py 341-345: N exits with code 1
ConfirmReextract == Confirm("confirm_reextract", "delete", "1")

\* run_extraction_pipeline(pipeline_path) up to pipeline.run(), app.py
\* 125-144: False without the script, else run starts with fresh locals
CallPipeline(here, inside) ==
    /\ pc = here
    /\ IF project.pipeline_script
       THEN /\ pc' = inside
            /\ runs' = runs + 1
            /\ ppc' = "extract_rexp"
            /\ pl_pages' = [s \in Symbols |-> EmptyTarget]
            /\ idx' = 0
            /\ awaiting' = FALSE
            /\ requests' = <<>>
            /\ responses' = [s \in Symbols |-> <<>>]
            /\ parsed_data' = [s \in Symbols |-> <<>>]
            /\ run_df' = NoFrame
            /\ raised' = NotRaised
            /\ printed' = <<>>
            /\ UNCHANGED exit_code
       ELSE /\ Exit("1")
            /\ UNCHANGED <<runs, runVars>>
    /\ UNCHANGED <<file, validation, data_exists, validated, answers, launched>>
    /\ UNCHANGED <<edit, edits, raw, args, project>>

\* what except Exception catches: everything run raises but the
\* BaseException of list_all_files
Caught(exc) == exc # "BaseException: Simbol not found"

\* run_extraction_pipeline from the end of pipeline.run() on, app.py 146-166,
\* and the test of success in main, app.py 316-320 and 357-361: True after
\* run has returned; False, and exit code 1, after an exception that except
\* Exception catches; any other exception leaves main, and the process ends
\* with the traceback and code 1
PipelineReturns(inside, next) ==
    /\ pc = inside
    /\ ppc \in {"done", "raised"}
    /\ IF ppc = "done" THEN pc' = next /\ UNCHANGED exit_code
       ELSE IF Caught(raised.exc) THEN Exit("1")
       ELSE pc' = "uncaught" /\ exit_code' = "1"
    /\ UNCHANGED <<file, validation, data_exists, validated, answers, runs, launched>>
    /\ UNCHANGED mainFrame

CallPipeline1 == CallPipeline("call_run_1", "in_run_1")
PipelineReturns1 == PipelineReturns("in_run_1", "validate")
CallPipeline2 == CallPipeline("call_run_2", "in_run_2")
PipelineReturns2 == PipelineReturns("in_run_2", "revalidate")

\* Step 2, app.py 326-338: a valid table goes on to the launch, an invalid
\* one to the prompt
ValidateData ==
    /\ pc = "validate"
    /\ ValidateFile
    /\ pc' = IF validation'.is_valid THEN "launch" ELSE "confirm_reextract"
    /\ UNCHANGED <<file, data_exists, answers, runs, launched, exit_code>>
    /\ UNCHANGED mainFrame

\* os.remove of the invalid file if it exists, app.py 352-354
DeleteInvalid ==
    /\ pc = "delete"
    /\ file' = AbsentFile
    /\ pc' = "call_run_2"
    /\ UNCHANGED <<validation, data_exists, validated, answers, runs, launched, exit_code>>
    /\ UNCHANGED mainFrame

\* where main goes after the second validation, app.py 366-370
AfterRevalidationAlways(is_valid) == "launch"
AfterRevalidation(is_valid) == IF is_valid THEN "launch" ELSE "exit"

\* a second validation that asks for another re-extraction when it fails
RevalidateAsksAgain ==
    /\ pc = "revalidate"
    /\ ValidateFile
    /\ pc' = IF validation'.is_valid THEN "launch" ELSE "confirm_reextract"
    /\ UNCHANGED <<file, data_exists, answers, runs, launched, exit_code>>
    /\ UNCHANGED mainFrame

\* Re-validate, app.py 364-370: still invalid exits with code 1
Revalidate ==
    /\ pc = "revalidate"
    /\ ValidateFile
    /\ IF AfterRevalidation(validation'.is_valid) = "launch"
       THEN pc' = "launch" /\ UNCHANGED exit_code
       ELSE Exit("1")
    /\ UNCHANGED <<file, data_exists, answers, runs, launched>>
    /\ UNCHANGED mainFrame

\* Step 3, app.py 377-382: the CLI assistant with --cli, else the dashboard
Launch ==
    /\ pc = "launch"
    /\ launched' = (IF args.cli THEN "launch_cli_app" ELSE "launch_web_app")
    /\ pc' = "consumer"
    /\ UNCHANGED <<file, validation, data_exists, validated, answers, runs, exit_code>>
    /\ UNCHANGED mainFrame

(***************************************************************************)
(* Specification SpecVal: the validator applied to table files.  The table *)
(* file is written by hand or by an earlier run; the operations below are  *)
(* the changes an operator or a test makes to it between two validations.  *)
(***************************************************************************)
ForeignCompanies == {"AAPL"}
ExtraColumns == {"Quarter"}

AllNumeric == [c \in Range(NumericColumns) |-> "int64"]

\* Tables with every required column, numeric monetary columns, parseable
\* dates and rows of the two companies only: 0..MaxRows rows.
CleanTables ==
    {CsvFile(RequiredColumns, s, AllNumeric, TRUE) :
        s \in UNION {[1..n -> ValidCompanies] : n \in 0..MaxRows}}

Edited(kind, arg) ==
    /\ pc \in {"table", "validated"}
    /\ edits < MaxEdits
    /\ edits' = edits + 1
    /\ edit' = [kind |-> kind, arg |-> arg,
                from_accepted |-> validate_data_structure(file).is_valid]
    /\ pc' = "table"
    /\ validation' = NoResult
    /\ UNCHANGED <<raw, mainVars, runVars>>

\* a column is removed from the table
RemoveColumn(c) ==
    /\ c \in file.columns
    /\ file' = [file EXCEPT !.columns = @ \ {c}]
    /\ Edited("remove column", c)

\* a column the validator does not know is added to the table
AddColumn(c) ==
    /\ c \notin file.columns
    /\ file' = [file EXCEPT !.columns = @ \cup {c}]
    /\ Edited("add column", c)

\* a row of a company outside the valid set is added
AddForeignRow(s) ==
    /\ file' = [file EXCEPT !.simbol = Append(@, s)]
    /\ Edited("foreign row", s)

\* a cell of a monetary column is replaced by text: the column's dtype is object
MakeNonNumeric(c) ==
    /\ file.dtype[c] # "object"
    /\ DfLen(file) > 0
    /\ file' = [file EXCEPT !.dtype[c] = "object"]
    /\ Edited("non-numeric", c)

\* a Report Date cell is replaced by text that is no date
BreakDates ==
    /\ file.dates_parse
    /\ DfLen(file) > 0
    /\ file' = [file EXCEPT !.dates_parse = FALSE]
    /\ Edited("bad date", "Report Date")

\* the table is cut to its first k rows, k below the row minimum
ReduceRows(k) ==
    /\ k < DfLen(file)
    /\ file' = [file EXCEPT !.simbol = SubSeq(@, 1, k)]
    /\ Edited("reduce rows", "rows")

\* is_valid, error_message = validate_data_structure(path), app.py 326
Validate ==
    /\ pc = "table"
    /\ ValidateFile
    /\ pc' = "validated"
    /\ UNCHANGED <<file, edit, edits, raw>>
    /\ UNCHANGED <<args, project, data_exists, answers, runs, launched, exit_code>>
    /\ UNCHANGED runVars

NoEdit == [kind |-> "none", arg |-> "none", from_accepted |-> FALSE]

InitVal ==
    /\ pc = "table"
    /\ file \in CleanTables
    /\ validation = NoResult
    /\ edit = NoEdit
    /\ edits = 0
    /\ raw = EmptyRaw
    /\ MainIdle
    /\ RunIdle

NextVal ==
    \/ \E c \in RequiredColumns : RemoveColumn(c)
    \/ \E c \in ExtraColumns : AddColumn(c)
    \/ \E s \in ForeignCompanies : AddForeignRow(s)
    \/ \E c \in Range(NumericColumns) : MakeNonNumeric(c)
    \/ BreakDates
    \/ \E k \in 0..(MinRecords - 1) : ReduceRows(k)
    \/ Validate

SpecVal == InitVal /\ [][NextVal]_vars

(***************************************************************************)
(* Specification SpecTotal: the validator applied once to any file: no     *)
(* file, a file of zero bytes, bytes that are no table, and tables with    *)
(* any of the defects, several at once.                                    *)
(***************************************************************************)
ObjectRevenue == [AllNumeric EXCEPT !["Revenue"] = "object"]

AnyTables ==
    {CsvFile(columns, s, dtype, dates_parse) :
        columns \in {RequiredColumns, RequiredColumns \ {"Revenue"},
                     RequiredColumns \cup ExtraColumns, {}},
        s \in UNION {[1..n -> ValidCompanies \cup ForeignCompanies] : n \in 0..MaxRows},
        dtype \in {AllNumeric, ObjectRevenue},
        dates_parse \in BOOLEAN}

AnyFiles ==
    {AbsentFile, ZeroByteFile, UnreadableFile("ParserError"),
     UnreadableFile("UnicodeDecodeError")} \cup AnyTables

InitTotal ==
    /\ pc = "table"
    /\ file \in AnyFiles
    /\ validation = NoResult
    /\ edit = NoEdit
    /\ edits = 0
    /\ raw = EmptyRaw
    /\ MainIdle
    /\ RunIdle

NextTotal == Validate

SpecTotal == InitTotal /\ [][NextTotal]_vars

(***************************************************************************)
(* Specification SpecParse: lines 127-128 of run on the answers of the     *)
(* LLM.  One company's list holds one answer: an object of up to MaxPairs  *)
(* members or prose, possibly off the required format by one token; the    *)
(* other company's list is empty or holds the same answer inside a code    *)
(* fence.                                                                  *)
(***************************************************************************)
Members ==
    { <<Str(<<"Simbol">>), Str(<<"REXP">>)>>,
      <<Str(<<"file_name">>), Str(<<"30062022", ".pdf">>)>>,
      <<Str(<<"file_name">>), Str(<<"json", ".pdf">>)>>,
      <<Str(<<"Revenue">>), Num("2767931")>>,
      <<Str(<<"Revenue">>), Str(<<"2,767,931">>)>> }

ObjectTexts == {Render(ms) : ms \in UNION {[1..n -> Members] : n \in 0..MaxPairs}}

Words == {Word("Sorry"), Word("None")}
ProseTexts == UNION {[1..n -> Words] : n \in 1..MaxWords}

InsertableTokens == {LBRACE, RBRACE, COLON, COMMA}

Other(s) == CHOOSE o \in Symbols : o # s

\* the answer carries one token too many
InsertToken(s, i, tok) ==
    /\ pc = "answers" /\ ppc = "parse_dipd" /\ edit = NoEdit
    /\ Len(responses[s]) = 1 /\ responses[Other(s)] = <<>>
    /\ FENCE \notin Range(responses[s][1])
    /\ i \in 1..(Len(responses[s][1]) + 1)
    /\ responses' = [responses EXCEPT ![s] =
           << SubSeq(@[1], 1, i - 1) \o <<tok>> \o SubSeq(@[1], i, Len(@[1])) >>]
    /\ edit' = [kind |-> "insert token", arg |-> tok.v[1], from_accepted |-> FALSE]
    /\ UNCHANGED <<pc, file, validation, edits, raw, mainVars, ppc, pl_pages, idx, awaiting,
                   requests, parsed_data, run_df, raised, printed>>

\* the answer lacks one token
DropToken(s, i) ==
    /\ pc = "answers" /\ ppc = "parse_dipd" /\ edit = NoEdit
    /\ Len(responses[s]) = 1 /\ responses[Other(s)] = <<>>
    /\ FENCE \notin Range(responses[s][1])
    /\ i \in 1..Len(responses[s][1])
    /\ responses' = [responses EXCEPT ![s] =
           << SubSeq(@[1], 1, i - 1) \o SubSeq(@[1], i + 1, Len(@[1])) >>]
    /\ edit' = [kind |-> "drop token", arg |-> responses[s][1][i].v[1],
                from_accepted |-> FALSE]
    /\ UNCHANGED <<pc, file, validation, edits, raw, mainVars, ppc, pl_pages, idx, awaiting,
                   requests, parsed_data, run_df, raised, printed>>

\* the other company's answer is the same text inside a code fence
AnswerFenced(s, tagged) ==
    /\ pc = "answers" /\ ppc = "parse_dipd"
    /\ Len(responses[s]) = 1 /\ responses[Other(s)] = <<>>
    /\ responses' = [responses EXCEPT ![Other(s)] = <<Fenced(responses[s][1], tagged)>>]
    /\ UNCHANGED <<pc, file, validation, edit, edits, raw, mainVars, ppc, pl_pages, idx,
                   awaiting, requests, parsed_data, run_df, raised, printed>>

\* the answer comes inside a code fence
WrapInFence(s, tagged) ==
    /\ pc = "answers" /\ ppc = "parse_dipd"
    /\ Len(responses[s]) = 1 /\ responses[Other(s)] = <<>>
    /\ FENCE \notin Range(responses[s][1])
    /\ responses' = [responses EXCEPT ![s] = <<Fenced(@[1], tagged)>>]
    /\ UNCHANGED <<pc, file, validation, edit, edits, raw, mainVars, ppc, pl_pages, idx,
                   awaiting, requests, parsed_data, run_df, raised, printed>>

InitParse ==
    /\ pc = "answers"
    /\ file = AbsentFile
    /\ validation = NoResult
    /\ edit = NoEdit
    /\ edits = 0
    /\ raw = EmptyRaw
    /\ MainIdle
    /\ ppc = "parse_dipd"
    /\ pl_pages = [s \in Symbols |-> EmptyTarget]
    /\ idx = 0
    /\ awaiting = FALSE
    /\ requests = <<>>
    /\ \E s \in Symbols : \E t \in ObjectTexts \cup ProseTexts :
           responses = [x \in Symbols |-> IF x = s THEN <<t>> ELSE <<>>]
    /\ parsed_data = [s \in Symbols |-> <<>>]
    /\ run_df = NoFrame
    /\ raised = NotRaised
    /\ printed = <<>>

NextParse ==
    \/ \E s \in Symbols : \E i \in 1..(4 * MaxPairs + 2) :
           \E tok \in InsertableTokens : InsertToken(s, i, tok)
    \/ \E s \in Symbols : \E i \in 1..(4 * MaxPairs + 1) : DropToken(s, i)
    \/ \E s \in Symbols : \E tagged \in BOOLEAN : AnswerFenced(s, tagged)
    \/ \E s \in Symbols : \E tagged \in BOOLEAN : WrapInFence(s, tagged)
    \/ ParseDipd
    \/ ParseRexp

SpecParse == InitParse /\ [][NextParse]_vars

(***************************************************************************)
(* Specification SpecPipe: pipeline.py run as a script (pipeline.py        *)
(* 157-159) on a raw data directory.  The directory is filled first, one   *)
(* document or page at a time, up to MaxDocs documents and MaxPages pages; *)
(* then run goes through its statements, the LLM answering each request    *)
(* with the object asked for, the object in a code fence, or prose.        *)
(***************************************************************************)
\* names of quarterly reports: the day, month and year of the report, digit
\* by digit, and the extension
FileNames ==
    << <<"3", "1", "1", "2", "2", "0", "2", "4", ".pdf">>,
       <<"3", "0", "0", "6", "2", "0", "2", "2", ".pdf">>,
       <<"3", "0", "0", "9", "2", "0", "2", "3", ".pdf">>,
       <<"3", "1", "0", "3", "2", "0", "2", "3", ".pdf">> >>

\* page texts: an income statement of each company, a page with words of
\* both markers and neither marker, and a page with both markers
RexpPage == <<"Consolidated", "Income", "Statements", "Revenue", "2,767,931">>
DipdPage == <<"STATEMENT", "OF", "PROFIT", "OR", "LOSS", "Revenue", "100">>
NotesPage == <<"Consolidated", "Statements", "OF", "PROFIT", "OR", "Income", "LOSS">>
BothPage ==
    <<"Group", "Consolidated", "Income", "Statements", "and", "STATEMENT", "OF",
      "PROFIT", "OR", "LOSS">>
PageTexts == {RexpPage, DipdPage, NotesPage, BothPage}

RECURSIVE SumLen(_)
SumLen(seqs) == IF seqs = <<>> THEN 0 ELSE Len(Head(seqs)) + SumLen(Tail(seqs))
DocsIn(r) == Len(r["REXP"].files) + Len(r["DIPD"].files)
PagesOfSymbol(r, s) == SumLen([k \in DOMAIN r[s].files |-> r[s].files[k].pages])
PagesIn(r) == PagesOfSymbol(r, "REXP") + PagesOfSymbol(r, "DIPD")

OldTable == CsvFile(RequiredColumns, <<"REXP", "REXP", "DIPD", "DIPD">>, AllNumeric, TRUE)

\* a report is put into the directory of a company
AddDocument(s) ==
    /\ ppc = "setup"
    /\ raw[s].exists
    /\ DocsIn(raw) < MaxDocs
    /\ Len(raw[s].files) < Len(FileNames)
    /\ raw' = [raw EXCEPT ![s].files =
                  Append(@, [path |-> PathOf(s, FileNames[Len(@) + 1]), pages |-> <<>>])]
    /\ UNCHANGED <<pc, file, validation, edit, edits>>
    /\ UNCHANGED <<mainVars, runVars>>

\* the newest report of a company has one more page
AddPage(s, text) ==
    /\ ppc = "setup"
    /\ raw[s].files # <<>>
    /\ PagesIn(raw) < MaxPages
    /\ raw' = [raw EXCEPT ![s].files[Len(raw[s].files)].pages = Append(@, text)]
    /\ UNCHANGED <<pc, file, validation, edit, edits>>
    /\ UNCHANGED <<mainVars, runVars>>

\* the directory of a company is not there
RemoveDirectory(s) ==
    /\ ppc = "setup"
    /\ raw[s] = [exists |-> TRUE, files |-> <<>>]
    /\ raw' = [raw EXCEPT ![s].exists = FALSE]
    /\ UNCHANGED <<pc, file, validation, edit, edits>>
    /\ UNCHANGED <<mainVars, runVars>>

\* pipeline = LLMExtractionPipeline(); pipeline.run(), pipeline.py 158-159
StartRun ==
    /\ ppc = "setup"
    /\ ppc' = "extract_rexp"
    /\ UNCHANGED <<file, pl_pages, idx, awaiting, requests, responses, parsed_data,
                   run_df, raised, printed>>
    /\ UNCHANGED outsideRun

\* the statements of run, pipeline.py 109-155
RunStep ==
    \/ ExtractRexp
    \/ ExtractDipd
    \/ LlmSendDipd
    \/ LlmReceiveDipd
    \/ LlmFailsDipd
    \/ LlmReturnDipd
    \/ LlmSendRexp
    \/ LlmReceiveRexp
    \/ LlmFailsRexp
    \/ LlmReturnRexp
    \/ ParseDipd
    \/ ParseRexp
    \/ Assemble
    \/ Save

InitPipe ==
    /\ pc = "pipeline.py"
    /\ file \in {AbsentFile, OldTable}
    /\ validation = NoResult
    /\ edit = NoEdit
    /\ edits = 0
    /\ raw = EmptyRaw
    /\ MainIdle
    /\ ppc = "setup"
    /\ RunFresh

NextPipe ==
    \/ \E s \in Symbols : AddDocument(s)
    \/ \E s \in Symbols, text \in PageTexts : AddPage(s, text)
    \/ \E s \in Symbols : RemoveDirectory(s)
    \/ StartRun
    \/ RunStep

SpecPipe == InitPipe /\ [][NextPipe]_vars

(***************************************************************************)
(* Specification SpecLocate: the two calls of extract_pl_pages of run, the *)
(* script started in one of several working directories, with up to        *)
(* MaxReports reports per company, each without page or with one           *)
(* statement page.                                                         *)
(***************************************************************************)
\* os.getcwd(): a directory that names no company, and directories that hold
\* the symbol of a company as a component or at the start of one
WorkingDirectories ==
    { <<"C:", "\\", "app">>,
      <<"C:", "\\", "REXP", "\\", "app">>,
      <<"C:", "\\", "clients", "\\", "DIPD">>,
      <<"C:", "\\", "REXP", "_", "DIPD", "_", "reports">> }

\* the reports of company s under cwd: report k has the k-th name
ReportsUnder(cwd, s) ==
    UNION { { [k \in 1..n |-> [path |-> PathUnder(cwd, s, FileNames[k]),
                               pages |-> pages[k]]] :
                  pages \in [1..n -> {<<>>, <<BothPage>>}] } :
            n \in 0..MaxReports }

LocateDirectories ==
    UNION { { [REXP |-> [exists |-> TRUE, files |-> rexp],
               DIPD |-> [exists |-> TRUE, files |-> dipd]] :
                  rexp \in ReportsUnder(cwd, "REXP"), dipd \in ReportsUnder(cwd, "DIPD") } :
            cwd \in WorkingDirectories }

InitLocate ==
    /\ pc = "pipeline.py"
    /\ file \in {AbsentFile}
    /\ validation = NoResult
    /\ edit = NoEdit
    /\ edits = 0
    /\ raw \in LocateDirectories
    /\ MainIdle
    /\ ppc = "extract_rexp"
    /\ RunFresh

NextLocate ==
    \/ ExtractRexp
    \/ ExtractDipd

SpecLocate == InitLocate /\ [][NextLocate]_vars

(***************************************************************************)
(* Specification Spec: one execution of app.main, from its first statement *)
(* to the launch of a consumer or the exit, on a project directory as it   *)
(* may be found: the table file absent, empty, valid or too short; the raw *)
(* data directory with two reports per company, one report per company, a  *)
(* report without statement page, or without the directory of a company.   *)
(***************************************************************************)
OwnPage(s) == IF s = "REXP" THEN RexpPage ELSE DipdPage
Doc(s, k, pages) == [path |-> PathOf(s, FileNames[k]), pages |-> pages]

\* two reports per company, each with one statement page
FullRaw ==
    [s \in Symbols |->
        [exists |-> TRUE,
         files |-> <<Doc(s, 1, <<OwnPage(s)>>), Doc(s, 2, <<NotesPage, OwnPage(s)>>)>>]]
\* one report per company, with one statement page
SmallRaw == [s \in Symbols |-> [exists |-> TRUE, files |-> <<Doc(s, 1, <<OwnPage(s)>>)>>]]
\* the same, the report of REXP without statement page
UnmatchedRaw == [SmallRaw EXCEPT !["REXP"].files = <<Doc("REXP", 1, <<NotesPage>>)>>]
\* the directory of DIPD is not there
NoDipdRaw == [SmallRaw EXCEPT !["DIPD"] = [exists |-> FALSE, files |-> <<>>]]
\* the raw data directory is not there
NoRaw == [s \in Symbols |-> [exists |-> FALSE, files |-> <<>>]]
RawDirectories == {FullRaw, SmallRaw, UnmatchedRaw, NoDipdRaw}

ShortTable == CsvFile(RequiredColumns, <<"REXP", "DIPD">>, AllNumeric, TRUE)
TableFiles == {AbsentFile, ZeroByteFile, OldTable, ShortTable}

Init ==
    /\ pc = "main"
    /\ file \in TableFiles
    /\ validation = NoResult
    /\ edit = NoEdit
    /\ edits = 0
    /\ args \in [cli : BOOLEAN, force : BOOLEAN]
    /\ project \in [pipeline_script : BOOLEAN, raw_dir : BOOLEAN]
    /\ raw \in (IF project.raw_dir THEN RawDirectories ELSE {NoRaw})
    /\ data_exists = FALSE
    /\ validated = NotValidated
    /\ answers = <<>>
    /\ runs = 0
    /\ launched = "none"
    /\ exit_code = "none"
    /\ RunIdle

Next ==
    \/ CheckData
    \/ RequireExtraction
    \/ ConfirmExtract
    \/ ConfirmReextract
    \/ Interrupt
    \/ CallPipeline1
    \/ PipelineReturns1
    \/ ValidateData
    \/ DeleteInvalid
    \/ CallPipeline2
    \/ PipelineReturns2
    \/ Revalidate
    \/ Launch
    \/ RunStep

Spec == Init /\ [][Next]_vars

\* the statements of main outside run
MainStep ==
    \/ CheckData
    \/ RequireExtraction
    \/ ConfirmExtract
    \/ ConfirmReextract
    \/ Interrupt
    \/ CallPipeline1
    \/ PipelineReturns1
    \/ ValidateData
    \/ DeleteInvalid
    \/ CallPipeline2
    \/ PipelineReturns2
    \/ Revalidate
    \/ Launch

\* the statements of run that read documents, call the client or write
IoStep ==
    \/ ExtractRexp
    \/ ExtractDipd
    \/ LlmSendDipd
    \/ LlmReceiveDipd
    \/ LlmFailsDipd
    \/ LlmReturnDipd
    \/ LlmSendRexp
    \/ LlmReceiveRexp
    \/ LlmFailsRexp
    \/ LlmReturnRexp
    \/ Save

\* the statements of run that compute on lists in memory: pipeline.py 127-142
Computing == ppc \in {"parse_dipd", "parse_rexp", "assemble"}

\* main is one sequential program: while a statement is left to run, the
\* next one runs; a prompt is answered, a call of the client returns or
\* fails, and the loops over the parsed lists come to their end
SpecLive ==
    /\ Spec
    /\ WF_vars(MainStep)
    /\ WF_vars(IoStep)
    /\ []<>(~Computing)

(***************************************************************************)
(* Specification SpecAsm: lines 130-155 of run on parsed records.  The two *)
(* lists hold up to MaxRecords records together; a record has the keys of  *)
(* the required format in the order of the prompt, in another order, with  *)
(* one more key, or without the key index, and a file_name that is a       *)
(* report's name or is off the pattern.                                    *)
(***************************************************************************)
\* file names as the LLM may return them: two names of reports, a name
\* without extension, a date of seven digits, a day the month does not have,
\* a letter in the date
NameTexts ==
    { FileNames[1], FileNames[2],
      <<"3", "0", "0", "6", "2", "0", "2", "2">>,
      <<"1", "0", "1", "2", "0", "2", "2", ".pdf">>,
      <<"3", "1", "0", "6", "2", "0", "2", "2", ".pdf">>,
      <<"3", "0", "J", "U", "N", "2", "0", "2", "2", ".pdf">> }

Pair(k, v) == <<Val("str", <<k>>), v>>
Money ==
    << Pair("Revenue", Val("num", <<"2767931">>)),
       Pair("Cost of Goods Sold (COGS)", Val("num", <<"-1735091">>)),
       Pair("Gross Profit", Val("num", <<"1032840">>)),
       Pair("Operating Expenses", Val("num", <<"-580822">>)),
       Pair("Operating Income", Val("num", <<"458611">>)),
       Pair("Net Income", Val("num", <<"991673">>)) >>
Shapes == {"as asked", "other order", "one more key", "no index"}

\* the dict parsed from an answer about a report of company s
RecordOf(s, name, shape) ==
    LET index == <<Pair("index", Val("num", <<"0">>))>>
        simbol == <<Pair("Simbol", Val("str", <<s>>))>>
        file_name == <<Pair("file_name", Val("str", name))>>
        currency == <<Pair("Currency", Val("str", <<"LKR">>))>>
    IN  Val("dict",
            CASE shape = "as asked" -> index \o simbol \o file_name \o Money
              [] shape = "other order" -> file_name \o Money \o simbol \o index
              [] shape = "one more key" -> index \o simbol \o currency \o file_name \o Money
              [] shape = "no index" -> simbol \o file_name \o Money)
\* every name in the shape the prompt asks for, and one report in every shape
RecordsOf(s) ==
    {RecordOf(s, name, "as asked") : name \in NameTexts}
        \cup {RecordOf(s, FileNames[1], shape) : shape \in Shapes}

ParsedLists ==
    UNION { { [DIPD |-> dipd, REXP |-> rexp] :
                  dipd \in [1..k -> RecordsOf("DIPD")],
                  rexp \in [1..(n - k) -> RecordsOf("REXP")] } :
            n \in 0..MaxRecords, k \in 0..MaxRecords }

InitAsm ==
    /\ pc = "pipeline.py"
    /\ file \in {AbsentFile}
    /\ validation = NoResult
    /\ edit = NoEdit
    /\ edits = 0
    /\ raw = EmptyRaw
    /\ MainIdle
    /\ ppc = "assemble"
    /\ pl_pages = [s \in Symbols |-> EmptyTarget]
    /\ idx = 0
    /\ awaiting = FALSE
    /\ requests = <<>>
    /\ responses = [s \in Symbols |-> <<>>]
    /\ parsed_data \in ParsedLists
    /\ run_df = NoFrame
    /\ raised = NotRaised
    /\ printed = <<>>

NextAsm ==
    \/ Assemble
    \/ Save

SpecAsm == InitAsm /\ [][NextAsm]_vars

(***************************************************************************)
(* Specification SpecRuns: the pipeline script run up to MaxRuns times one *)
(* after another on the same output file, the reports in the raw data      *)
(* directory possibly other ones at each run.                              *)
(***************************************************************************)
RowsText(f) == IF f.kind = "csv" THEN ToString(Len(f.simbol)) ELSE "no table"

\* python pipeline.py, pipeline.py 157-159: run starts with fresh locals.  What
\* is noted of the moment: how the run before ended, and the rows of the
\* table it left.
RunScript ==
    /\ ppc \in {"setup", "done", "raised"}
    /\ runs < MaxRuns
    /\ runs' = runs + 1
    /\ raw' \in RawDirectories
    /\ edit' = [kind |-> "run after " \o ppc, arg |-> RowsText(file), from_accepted |-> FALSE]
    /\ ppc' = "extract_rexp"
    /\ pl_pages' = [s \in Symbols |-> EmptyTarget]
    /\ idx' = 0
    /\ awaiting' = FALSE
    /\ requests' = <<>>
    /\ responses' = [s \in Symbols |-> <<>>]
    /\ parsed_data' = [s \in Symbols |-> <<>>]
    /\ run_df' = NoFrame
    /\ raised' = NotRaised
    /\ printed' = <<>>
    /\ UNCHANGED <<pc, file, validation, edits, args, project, data_exists, validated,
                   answers, launched, exit_code>>

InitRuns ==
    /\ pc = "pipeline.py"
    /\ file \in {AbsentFile, OldTable}
    /\ validation = NoResult
    /\ edit = NoEdit
    /\ edits = 0
    /\ raw = EmptyRaw
    /\ MainIdle
    /\ ppc = "setup"
    /\ RunFresh

NextRuns ==
    \/ RunScript
    \/ RunStep

SpecRuns == InitRuns /\ [][NextRuns]_vars

(***************************************************************************)
(* Claims about app.main, checked under Spec.                              *)
(***************************************************************************)
\* main is about to start a consumer, or has started one
AtLaunch == pc \in {"launch", "consumer"} \/ launched # "none"

\* C1: a consumer is started only after validate_data_structure has returned
\* (True, None) for the table file as it is at the launch: on no path (data
\* present, --force, first extraction, re-extraction after an invalid table)
\* has the last validation failed, not run, or read another file content.
C1_LaunchOnlyAfterValid ==
    AtLaunch =>
        /\ validation = Ok
        /\ validated = file
        /\ validate_data_structure(file) = Ok

\* a consumer started after the operator had an invalid table deleted and
\* extracted again, and the new table passed the second validation
C1_Witness ==
    /\ launched \in {"launch_web_app", "launch_cli_app"}
    /\ <<"confirm_reextract", "Y">> \in Range(answers)
    /\ runs = 1
    /\ file.kind = "csv" /\ validated = file /\ validation = Ok

(***************************************************************************)
(* Claims about the page locator, the extraction client and the abort of   *)
(* run, checked under SpecPipe.                                            *)
(***************************************************************************)
Stages ==
    <<"setup", "extract_rexp", "extract_dipd", "llm_dipd", "llm_rexp", "parse_dipd",
      "parse_rexp", "assemble", "save", "done">>
StageNo(p) == CHOOSE k \in DOMAIN Stages : Stages[k] = p
\* the statement run is at, or the one it was left from
Here == IF ppc = "raised" THEN raised.at ELSE ppc
\* the statement at position p has returned
Past(p) == StageNo(Here) > StageNo(p)

ExtractPosition(s) == IF s = "REXP" THEN "extract_rexp" ELSE "extract_dipd"
LlmPosition(s) == IF s = "DIPD" THEN "llm_dipd" ELSE "llm_rexp"

\* all pages of the documents from document k on, document by document
RECURSIVE PagesFrom(_, _)
PagesFrom(files, k) ==
    IF k > Len(files) THEN <<>> ELSE files[k].pages \o PagesFrom(files, k + 1)

\* the page text holds the words of the company's marker one after another
HoldsMarker(s, page) ==
    IF s = "REXP"
    THEN \E i \in 1..(Len(page) - 2) :
            page[i] = "Consolidated" /\ page[i + 1] = "Income" /\ page[i + 2] = "Statements"
    ELSE \E i \in 1..(Len(page) - 4) :
            /\ page[i] = "STATEMENT" /\ page[i + 1] = "OF" /\ page[i + 2] = "PROFIT"
            /\ page[i + 3] = "OR" /\ page[i + 4] = "LOSS"

\* C2: for each company, the target_page list extract_pl_pages returns holds
\* exactly the pages whose text contains the company's marker, in the order
\* of the documents and, within a document, of its pages; a page without the
\* marker is not in it.
C2_ExactlyTheMarkerPages ==
    \A s \in Symbols :
        Past(ExtractPosition(s)) =>
            /\ pl_pages[s].target_page =
                  SelectSeq(PagesFrom(raw[s].files, 1), LAMBDA page : HoldsMarker(s, page))
            /\ \A i \in DOMAIN pl_pages[s].target_page :
                  HoldsMarker(s, pl_pages[s].target_page[i])

\* two DIPD documents of one marker page each, the pages differing in text:
\* both are returned, the page of the first document first
C2_Witness ==
    /\ Past("extract_dipd")
    /\ Len(raw["DIPD"].files) = 2
    /\ raw["DIPD"].files[1].pages = <<BothPage>>
    /\ raw["DIPD"].files[2].pages = <<DipdPage>>
    /\ pl_pages["DIPD"].target_page = <<BothPage, DipdPage>>

\* the requests sent for a company, in the order sent
RequestsOf(s) == SelectSeq(requests, LAMBDA m : m.simbol = s)

\* C3 (as stated): for every batch of extract_pl_pages, also when a document
\* has no matching page or several, llm_data_extraction raises no IndexError
\* and, once it has returned, has sent one request per matched page, in batch
\* order, and holds one response per matched page.
C3_OneRequestPerPageRecord ==
    /\ raised.exc # "IndexError"
    /\ \A s \in Symbols :
          Past(LlmPosition(s)) =>
              /\ Len(responses[s]) = Len(pl_pages[s].target_page)
              /\ [i \in DOMAIN RequestsOf(s) |-> RequestsOf(s)[i].target_page]
                    = pl_pages[s].target_page

\* the lines a step of run may change the table file from
ParsePositions == {"parse_dipd", "parse_rexp"}
ParsedSymbol(p) == IF p = "parse_dipd" THEN "DIPD" ELSE "REXP"
Unparseable(text) == ~literal_eval(StripFences(text)).ok

\* C4: when a response of either company does not parse, the call of
\* parse_llm_extraction_response on its list raises out of run: nothing is
\* returned for the list (no record is skipped), run takes no further step,
\* and the table file, which only the save statement changes, stays as it was.
C4_ParseFailureAbortsRun ==
    [][ /\ ( /\ ppc \in ParsePositions
             /\ \E i \in DOMAIN responses[ParsedSymbol(ppc)] :
                    Unparseable(responses[ParsedSymbol(ppc)][i]) )
           => /\ ppc' = "raised" /\ raised'.at = ppc
              /\ file' = file
              /\ parsed_data' = parsed_data
              /\ run_df' = NoFrame
        /\ ppc # "raised"
        /\ file' # file => ppc = "save" ]_vars

\* DIPD's answer parsed, REXP's did not: run is over, the table that was
\* there before is still there
C4_Witness ==
    /\ ppc = "raised" /\ raised.at = "parse_rexp"
    /\ Len(parsed_data["DIPD"]) = 1
    /\ Len(responses["REXP"]) = 1 /\ Unparseable(responses["REXP"][1])
    /\ parsed_data["REXP"] = <<>>
    /\ file = OldTable

\* the company has no document directory under data/raw
NoDirectory(s) == ~raw[s].exists
\* run was left by the error of list_all_files for company s
SymbolNotFound(s) ==
    /\ ppc = "raised"
    /\ raised = [exc |-> "BaseException: Simbol not found", at |-> ExtractPosition(s)]

\* C20: extract_pl_pages (through list_all_files) for a company without
\* document directory fails with the symbol-not-found error before a document
\* of it is opened; run does not get beyond that call: it sends no request to
\* the LLM and leaves the table file as it was.
C20_MissingDirectoryAbortsRun ==
    /\ [](\A s \in Symbols : NoDirectory(s) =>
             /\ ~Past(ExtractPosition(s))
             /\ pl_pages[s] = EmptyTarget
             /\ requests = <<>>
             /\ ppc \notin {"assemble", "save", "done"})
    /\ [][\A s \in Symbols : NoDirectory(s) /\ ppc = ExtractPosition(s) =>
             SymbolNotFound(s)' /\ pl_pages' = pl_pages]_runVars
    /\ [][(\E s \in Symbols : NoDirectory(s)) => file' = file]_vars

\* the DIPD directory is missing: the pages of REXP were found, then run was
\* left, with no request sent and the old table in place
C20_Witness ==
    /\ NoDirectory("DIPD") /\ SymbolNotFound("DIPD")
    /\ pl_pages["REXP"].simbol # <<>>
    /\ pl_pages["DIPD"] = EmptyTarget
    /\ requests = <<>>
    /\ file = OldTable

\* the responses received so far in this run
Answered == Len(responses["DIPD"]) + Len(responses["REXP"])
\* the requests sent that have no response
Outstanding == Len(requests) - Answered
\* run was left by an error of the client call
TransportFailure == ppc = "raised" /\ raised.exc = "anthropic.APIError"

\* C21: llm_data_extraction sends its requests one after another, the next
\* one only when the response to the one before has been received, and makes
\* the call of each turn of its loop once: when a call fails it is not made
\* again, the error leaves run, and the table file is not written.
C21_SequentialNoRetry ==
    /\ [](/\ Outstanding \in {0, 1}
          /\ Outstanding = 1 <=> awaiting \/ TransportFailure)
    /\ [](\A s \in Symbols :
             Here = LlmPosition(s) => Len(RequestsOf(s)) = idx + Outstanding)
    /\ [][requests' # requests =>
             /\ Outstanding = 0
             /\ Len(requests') = Len(requests) + 1]_vars
    /\ [][awaiting /\ Answered' = Answered =>
             TransportFailure' /\ raised'.at = ppc /\ file' = file]_runVars
    /\ [][TransportFailure => requests' = requests /\ file' = file /\ ppc' = ppc]_vars

\* the first request of REXP was answered, the call for the second failed:
\* run is left with two requests sent, one response, and the old table
C21_Witness ==
    /\ TransportFailure /\ raised.at = "llm_rexp"
    /\ Len(requests) = 2 /\ Len(responses["REXP"]) = 1 /\ idx = 1
    /\ Outstanding = 1
    /\ file = OldTable

\* the pages of all documents of company s that hold its marker
MatchedPages(s) ==
    SelectSeq(PagesFrom(raw[s].files, 1), LAMBDA page : HoldsMarker(s, page))

\* C22: after extract_pl_pages over n documents the index list is 0..n-1,
\* one entry per document in document order whatever the number of matched
\* pages, and the simbol, file_name and target_page lists have one entry per
\* matched page each; the three per-page lists have equal length at all times.
C22_IndexPerDocumentListsPerPage ==
    \A s \in Symbols :
        /\ Len(pl_pages[s].simbol) = Len(pl_pages[s].target_page)
        /\ Len(pl_pages[s].file_name) = Len(pl_pages[s].target_page)
        /\ Past(ExtractPosition(s)) =>
              /\ pl_pages[s].index = [i \in 1..Len(raw[s].files) |-> i - 1]
              /\ Len(pl_pages[s].target_page) = Len(MatchedPages(s))

\* two REXP documents, the first with a page that matches and one that does
\* not, the second without pages: two index entries, one page record
C22_Witness ==
    /\ Past("extract_rexp")
    /\ Len(raw["REXP"].files) = 2
    /\ Len(raw["REXP"].files[1].pages) = 2
    /\ raw["REXP"].files[2].pages = <<>>
    /\ pl_pages["REXP"].index = <<0, 1>>
    /\ Len(pl_pages["REXP"].target_page) = 1
    /\ Len(pl_pages["REXP"].file_name) = 1

(***************************************************************************)
(* Claims about the file names of the page records, checked under          *)
(* SpecLocate.                                                             *)
(***************************************************************************)
\* the base name of a path: what follows its last separator
BaseName(path) ==
    LET seps == {k \in DOMAIN path : path[k] = "\\"}
        last == CHOOSE k \in seps : \A j \in seps : j <= k
    IN  SubSeq(path, last + 1, Len(path))

\* the base names of the documents from document k on, each as many times as
\* the document has pages with the marker
RECURSIVE NamesFrom(_, _, _)
NamesFrom(s, files, k) ==
    IF k > Len(files) THEN <<>>
    ELSE Repeat(BaseName(files[k].path),
                Len(SelectSeq(files[k].pages, LAMBDA page : HoldsMarker(s, page))))
            \o NamesFrom(s, files, k + 1)

\* C23: whatever the working directory, also when its path holds the symbol
\* before the directory of the company, the file_name of every page record is
\* the base name of the page's document, without any directory.
C23_FileNameIsBaseName ==
    \A s \in Symbols :
        Past(ExtractPosition(s)) => pl_pages[s].file_name = NamesFrom(s, raw[s].files, 1)

(***************************************************************************)
(* Claims about the assembly of the table, checked under SpecAsm.          *)
(***************************************************************************)
\* the records handed to the assembly, DIPD's first
InputRecords == parsed_data["DIPD"] \o parsed_data["REXP"]
Assembled == ppc \in {"save", "done"}

\* the value a record has for a key, NaN without the key
ValueOf(rec, key) ==
    IF \E i \in DOMAIN rec.v : rec.v[i][1] = key
    THEN (CHOOSE pair \in Range(rec.v) : pair[1] = key)[2]
    ELSE NaN
NameIn(rec) == ValueOf(rec, Label("file_name")).v

\* a name of eight digits and the extension, and the day it names
IsReportName(name) ==
    Len(name) = 9 /\ name[9] = ".pdf" /\ \A i \in 1..8 : name[i] \in Digits
DigitOf(c) ==
    CASE c = "0" -> 0 [] c = "1" -> 1 [] c = "2" -> 2 [] c = "3" -> 3 [] c = "4" -> 4
      [] c = "5" -> 5 [] c = "6" -> 6 [] c = "7" -> 7 [] c = "8" -> 8 [] c = "9" -> 9
DayOfName(name) == 10 * DigitOf(name[1]) + DigitOf(name[2])
MonthOfName(name) == 10 * DigitOf(name[3]) + DigitOf(name[4])
YearOfName(name) ==
    1000 * DigitOf(name[5]) + 100 * DigitOf(name[6]) + 10 * DigitOf(name[7])
    + DigitOf(name[8])
DayNumber(name) == 10000 * YearOfName(name) + 100 * MonthOfName(name) + DayOfName(name)

\* the year, month and day of a Report Date cell, written yyyy-mm-dd
YearOfCell(cell) ==
    1000 * DigitOf(cell.v[1]) + 100 * DigitOf(cell.v[2]) + 10 * DigitOf(cell.v[3])
    + DigitOf(cell.v[4])
MonthOfCell(cell) == 10 * DigitOf(cell.v[6]) + DigitOf(cell.v[7])
DayOfCell(cell) == 10 * DigitOf(cell.v[9]) + DigitOf(cell.v[10])
CellDayNumber(cell) == 10000 * YearOfCell(cell) + 100 * MonthOfCell(cell) + DayOfCell(cell)
ReportDate(row) == row[Label("Report Date")]

\* the row is the record: every column but the date holds the record's value
RowIsRecord(row, rec) ==
    \A c \in DOMAIN row : c # Label("Report Date") => row[c] = ValueOf(rec, c)

DistinctReportDays ==
    /\ \A i \in DOMAIN InputRecords : IsReportName(NameIn(InputRecords[i]))
    /\ \A i, j \in DOMAIN InputRecords :
          i # j => DayNumber(NameIn(InputRecords[i])) # DayNumber(NameIn(InputRecords[j]))

\* C11: for parsed records of pairwise distinct report dates, in whatever
\* order the two lists bring them, the assembled table has a strictly
\* ascending Report Date column and holds every input record in exactly one
\* row: the sort drops no row and doubles none.
C11_SortedEachRecordOnce ==
    (Assembled /\ DistinctReportDays) =>
        /\ Len(run_df.rows) = Len(InputRecords)
        /\ \A i, j \in DOMAIN run_df.rows :
              i < j => CellDayNumber(ReportDate(run_df.rows[i]))
                       < CellDayNumber(ReportDate(run_df.rows[j]))
        /\ \A k \in DOMAIN InputRecords :
              Cardinality({i \in DOMAIN run_df.rows :
                              RowIsRecord(run_df.rows[i], InputRecords[k])}) = 1

\* DIPD's record of December 2024 concatenated before REXP's of June 2022:
\* the table has REXP's row first
C11_Witness ==
    /\ Assembled
    /\ Len(parsed_data["DIPD"]) = 1 /\ Len(parsed_data["REXP"]) = 1
    /\ NameIn(parsed_data["DIPD"][1]) = FileNames[1]
    /\ NameIn(parsed_data["REXP"][1]) = FileNames[2]
    /\ Len(run_df.rows) = 2
    /\ run_df.rows[1][Label("Simbol")] = Val("str", <<"REXP">>)
    /\ run_df.rows[2][Label("Simbol")] = Val("str", <<"DIPD">>)

\* the assembly has run, and the concatenation went through (a record has a
\* key index), so that the dates were derived
HasIndexKey == \E k \in DOMAIN InputRecords : ValueOf(InputRecords[k], Label("index")) # NaN
DatesDerived == ppc # "assemble" /\ HasIndexKey
DateFormatError == [exc |-> "ValueError: time data does not match format", at |-> "assemble"]

\* the name without the text .pdf
DatePart(name) == SelectSeq(name, LAMBDA piece : piece # ".pdf")
\* the days of the calendar
IsCalendarDay(d, m, y) ==
    /\ y >= 1 /\ m \in 1..12 /\ d >= 1
    /\ d <= (CASE m \in {1, 3, 5, 7, 8, 10, 12} -> 31
               [] m \in {4, 6, 9, 11} -> 30
               [] OTHER -> IF (y % 4 = 0 /\ y % 100 # 0) \/ y % 400 = 0 THEN 29 ELSE 28)
\* eight digits ddmmyyyy of a day of the calendar
IsDayText(t) ==
    /\ Len(t) = 8 /\ \A i \in 1..8 : t[i] \in Digits
    /\ IsCalendarDay(DayOfName(t), MonthOfName(t), YearOfName(t))

\* C12 (as stated): a file_name that is not exactly eight digits followed by
\* .pdf (a name without the extension, or with another character than a
\* digit in the date) makes the derivation of the Report Date fail with a
\* date-format error, and no Report Date is produced.
C12_OffPatternNameFails ==
    (DatesDerived /\ \E k \in DOMAIN InputRecords : ~IsReportName(NameIn(InputRecords[k])))
        => (raised = DateFormatError /\ run_df = NoFrame)

\* C12 (amended): a file_name with another character than a digit left after
\* the text .pdf is taken out makes the derivation fail with a date-format
\* error: run raises, no Report Date is produced and no table is written.  A
\* name without the extension does not: eight digits of a calendar day, with
\* or without .pdf, are read as that day.
C12_NonDigitFailsBareNameParses ==
    DatesDerived =>
        /\ (\E k \in DOMAIN InputRecords :
               \E i \in DOMAIN DatePart(NameIn(InputRecords[k])) :
                   DatePart(NameIn(InputRecords[k]))[i] \notin Digits)
           => (raised = DateFormatError /\ run_df = NoFrame /\ file = AbsentFile)
        /\ (\A k \in DOMAIN InputRecords : IsDayText(DatePart(NameIn(InputRecords[k]))))
           => /\ raised.at # "assemble"
              /\ \A i \in DOMAIN run_df.rows :
                    LET t == DatePart(run_df.rows[i][Label("file_name")].v) IN
                    CellDayNumber(ReportDate(run_df.rows[i])) = DayNumber(t)

\* a record named 30062022, without extension, is in the table with the
\* Report Date 2022-06-30
C12_Witness ==
    /\ Assembled
    /\ \E i \in DOMAIN run_df.rows :
          /\ run_df.rows[i][Label("file_name")].v = <<"3", "0", "0", "6", "2", "0", "2", "2">>
          /\ ReportDate(run_df.rows[i]).v = <<"2", "0", "2", "2", "-", "0", "6", "-", "3", "0">>

\* C13: a record whose file_name is DDMMYYYY.pdf, a day of the calendar, gets
\* the Report Date of day DD, month MM and year YYYY; with only such names
\* the derivation does not fail.
C13_DateOfTheName ==
    DatesDerived =>
        /\ (\A k \in DOMAIN InputRecords :
               /\ IsReportName(NameIn(InputRecords[k]))
               /\ IsDayText(DatePart(NameIn(InputRecords[k]))))
           => raised.at # "assemble"
        /\ \A i \in DOMAIN run_df.rows :
              LET name == run_df.rows[i][Label("file_name")].v IN
              (IsReportName(name) /\ IsDayText(DatePart(name))) =>
                  /\ DayOfCell(ReportDate(run_df.rows[i])) = DayOfName(name)
                  /\ MonthOfCell(ReportDate(run_df.rows[i])) = MonthOfName(name)
                  /\ YearOfCell(ReportDate(run_df.rows[i])) = YearOfName(name)

\* 30062022.pdf has become 2022-06-30 and 31122024.pdf 2024-12-31
C13_Witness ==
    /\ Assembled
    /\ \E i, j \in DOMAIN run_df.rows :
          /\ run_df.rows[i][Label("file_name")].v = FileNames[2]
          /\ ReportDate(run_df.rows[i]).v = <<"2", "0", "2", "2", "-", "0", "6", "-", "3", "0">>
          /\ run_df.rows[j][Label("file_name")].v = FileNames[1]
          /\ ReportDate(run_df.rows[j]).v = <<"2", "0", "2", "4", "-", "1", "2", "-", "3", "1">>

\* the columns of the output table, in the order the specification gives
TableColumns ==
    <<"Simbol", "file_name", "Revenue", "Cost of Goods Sold (COGS)", "Gross Profit",
      "Operating Expenses", "Operating Income", "Net Income", "Report Date">>

\* C14 (as stated): after every successful run the columns of the persisted
\* table are exactly Simbol, file_name, the six monetary columns and Report
\* Date, in this order, whatever the order of the keys in the parsed
\* responses and whether or not they hold more keys.
C14_ColumnsInFixedOrder ==
    ppc = "done" =>
        /\ run_df.columns = [i \in DOMAIN TableColumns |-> Label(TableColumns[i])]
        /\ file = to_csv(run_df)
        /\ file.columns = Range(TableColumns)

\* C25: the assembly completes only if a parsed record has the key index:
\* when no record has it (records of exactly the eight keys of the required
\* format, or no record at all), dropping the column level_0 fails, run raises
\* there, and no table is written.
C25_NoIndexKeyNoTable ==
    ppc # "assemble" /\ ~HasIndexKey =>
        /\ ppc = "raised"
        /\ raised = [exc |-> "KeyError: level_0", at |-> "assemble"]
        /\ run_df = NoFrame
        /\ file = AbsentFile

\* two records of the eight keys, none with the key index: run was left at
\* the assembly with the KeyError
C25_Witness ==
    /\ Len(InputRecords) = 2
    /\ \A k \in DOMAIN InputRecords :
          /\ Len(InputRecords[k].v) = 8
          /\ ValueOf(InputRecords[k], Label("index")) = NaN
          /\ ValueOf(InputRecords[k], Label("file_name")) # NaN
    /\ ppc = "raised"
    /\ raised = [exc |-> "KeyError: level_0", at |-> "assemble"]
    /\ file = AbsentFile

(***************************************************************************)
(* Claims about runs of the script one after another, checked under        *)
(* SpecRuns.                                                               *)
(***************************************************************************)
\* the rows of the table file with the company s
RowsOf(f, s) == Cardinality({i \in DOMAIN f.simbol : f.simbol[i] = s})
\* the records of company s the current run has parsed
RecordsWith(s) ==
    Cardinality({k \in DOMAIN InputRecords :
                    ValueOf(InputRecords[k], Label("Simbol")) = Val("str", <<s>>)})

\* C15: after any sequence of successful runs the persisted table holds
\* exactly the records of the last run: as many rows as the run parsed
\* records, company by company; nothing of an earlier table is left in it.
C15_TableIsTheLastRun ==
    ppc = "done" =>
        /\ file.kind = "csv"
        /\ Len(file.simbol) = Len(InputRecords)
        /\ \A s \in Symbols : RowsOf(file, s) = RecordsWith(s)
        /\ file.columns = {LabelText(run_df.columns[i]) : i \in DOMAIN run_df.columns}

\* a second run, on one report per company, after a run that had succeeded
\* and left a table of four rows: the table has two rows
C15_Witness ==
    /\ ppc = "done" /\ runs = 2
    /\ edit.kind = "run after done" /\ edit.arg = "4"
    /\ raw = SmallRaw
    /\ Len(file.simbol) = 2

(***************************************************************************)
(* Claims about the response parser, checked under SpecParse.              *)
(***************************************************************************)
ParsePosition(s) == IF s = "DIPD" THEN "parse_dipd" ELSE "parse_rexp"

\* the parser has been called on the list of s
ParseCalled(s) ==
    IF s = "DIPD" THEN ppc # "parse_dipd"
    ELSE ppc = "assemble" \/ raised.at = "parse_rexp"

\* the text inside the code fence, or the text itself when it has no fence
Body(t) ==
    IF Len(t) >= 5 /\ t[1] = FENCE /\ t[2] = TAG /\ t[3] = NEWLINE
       /\ t[Len(t) - 1] = NEWLINE /\ t[Len(t)] = FENCE
    THEN SubSeq(t, 4, Len(t) - 2)
    ELSE IF Len(t) >= 4 /\ t[1] = FENCE /\ t[2] = NEWLINE
            /\ t[Len(t) - 1] = NEWLINE /\ t[Len(t)] = FENCE
    THEN SubSeq(t, 3, Len(t) - 2)
    ELSE t

\* a JSON object of n >= 1 members, each a quoted key and a string or number
IsObjectText(t) ==
    \E n \in 1..Len(t) :
        /\ Len(t) = 4 * n + 1
        /\ t[1] = LBRACE /\ t[Len(t)] = RBRACE
        /\ \A k \in 0..(n - 1) :
              /\ t[4 * k + 2].t = "str"
              /\ t[4 * k + 3] = COLON
              /\ t[4 * k + 4].t \in {"str", "num"}
              /\ k < n - 1 => t[4 * k + 5] = COMMA

WithoutToken(t, i) == SubSeq(t, 1, i - 1) \o SubSeq(t, i + 1, Len(t))

\* such an object with a comma after its last member
HasTrailingComma(t) ==
    /\ Len(t) >= 6
    /\ t[Len(t) - 1] = COMMA
    /\ IsObjectText(WithoutToken(t, Len(t) - 1))

\* prose: bare words only, and not just one of Python's constants
IsLoneConstant(t) == Len(t) = 1 /\ t[1].v \in {<<"None">>, <<"True">>, <<"False">>}
IsProse(t) == Len(t) >= 1 /\ (\A i \in DOMAIN t : t[i].t = "name") /\ ~IsLoneConstant(t)

\* The mapping an object text stands for: each key with the value of its last
\* member, strings without the pieces the parser strips everywhere.
Clean(v) == SelectSeq(v, LAMBDA piece : piece \notin {"json", Backticks})
CleanVal(tok) == IF tok.t = "str" THEN Val("str", Clean(tok.v)) ELSE Val(tok.t, tok.v)
MappingOf(t) ==
    LET n == (Len(t) - 1) \div 4
        key(i) == CleanVal(t[4 * i + 2])
        last(k) == CHOOSE i \in 0..(n - 1) :
                       key(i) = k /\ \A j \in 0..(n - 1) : key(j) = k => j <= i
    IN  [k \in {key(i) : i \in 0..(n - 1)} |-> CleanVal(t[4 * last(k) + 4])]

\* a parsed dict as the function from its keys to their values
DictFn(d) ==
    [k \in {d.v[i][1] : i \in DOMAIN d.v} |->
        (CHOOSE pair \in Range(d.v) : pair[1] = k)[2]]

\* C5 (as stated): for every malformed answer (an object with a trailing comma,
\* or prose instead of an object) the parser raises; it never returns a list.
C5_MalformedAlwaysRaises ==
    \A s \in Symbols :
        ( /\ ParseCalled(s)
          /\ Len(responses[s]) = 1
          /\ HasTrailingComma(Body(responses[s][1])) \/ IsProse(Body(responses[s][1])) )
        => (raised.at = ParsePosition(s) /\ printed # <<>>)

\* C5 (amended): for every prose answer (bare words, other than one of Python's
\* constants alone) the parser raises after printing the fence-stripped text
\* and returns no list; an object with a comma after its last member is a
\* literal: the parser does not raise and returns its complete mapping.
C5_ProseRaisesTrailingCommaParses ==
    \A s \in Symbols :
        (ParseCalled(s) /\ Len(responses[s]) = 1) =>
            LET t == Body(responses[s][1]) IN
            /\ IsProse(t) =>
                  /\ raised = [exc |-> "literal_eval error", at |-> ParsePosition(s)]
                  /\ Len(printed) = 1
                  /\ SelectSeq(printed[1], LAMBDA tok : tok.t # "nl") = t
                  /\ parsed_data[s] = <<>>
            /\ HasTrailingComma(t) =>
                  /\ raised.at # ParsePosition(s)
                  /\ Len(parsed_data[s]) = 1
                  /\ parsed_data[s][1].t = "dict"
                  /\ DictFn(parsed_data[s][1]) = MappingOf(WithoutToken(t, Len(t) - 1))

\* prose answered for REXP inside a code fence: the parser raised on it
C5_Witness ==
    /\ raised.at = "parse_rexp"
    /\ Len(responses["REXP"]) = 1
    /\ FENCE \in Range(responses["REXP"][1])
    /\ IsProse(Body(responses["REXP"][1]))
    /\ printed # <<>>

\* C6: for a well-formed object text t, parsing t inside a code fence with the
\* language tag gives a mapping equal to the one parsing t itself gives.
C6_FencedParsesLikeUnfenced ==
    \A s \in Symbols :
        ( /\ ParseCalled("DIPD") /\ ParseCalled("REXP")
          /\ Len(responses[s]) = 1
          /\ IsObjectText(responses[s][1])
          /\ responses[Other(s)] = <<Fenced(responses[s][1], TRUE)>> )
        => /\ raised = NotRaised
           /\ Len(parsed_data[s]) = 1
           /\ parsed_data[s][1].t = "dict"
           /\ parsed_data[Other(s)] = parsed_data[s]

\* both lists parsed: an object of two members for DIPD, one of which holds
\* the text of the language tag, and the same object fenced for REXP
C6_Witness ==
    /\ ppc = "assemble"
    /\ Len(responses["DIPD"]) = 1
    /\ IsObjectText(responses["DIPD"][1])
    /\ Len(responses["DIPD"][1]) = 9
    /\ \E i \in DOMAIN responses["DIPD"][1] : "json" \in Range(responses["DIPD"][1][i].v)
    /\ responses["REXP"] = <<Fenced(responses["DIPD"][1], TRUE)>>
    /\ parsed_data["REXP"] = parsed_data["DIPD"]

(***************************************************************************)
(* Claims about the validator, checked under SpecVal.                      *)
(***************************************************************************)
Validated == pc = "validated" /\ file.kind = "csv"

\* The six checks under the letters the specification gives them.
CheckViolated(df, letter) ==
    CASE letter = "a" -> ~(RequiredColumns \subseteq df.columns)
      [] letter = "b" -> Len(df.simbol) = 0
      [] letter = "c" -> \E i \in DOMAIN df.simbol : df.simbol[i] \notin {"REXP", "DIPD"}
      [] letter = "d" -> \E i \in DOMAIN NumericColumns : df.dtype[NumericColumns[i]] = "object"
      [] letter = "e" -> ~df.dates_parse
      [] letter = "f" -> Len(df.simbol) < 4

CheckMessage(letter) ==
    CASE letter = "a" -> "Missing required columns"
      [] letter = "b" -> "Data file is empty"
      [] letter = "c" -> "Invalid companies found"
      [] letter = "d" -> "Column should be numeric"
      [] letter = "e" -> "Report Date column has invalid date format"
      [] letter = "f" -> "Insufficient data records (minimum 4 records required)"

\* The reason reported is the one of the earliest violated check of order.
ReportsEarliestOf(order) ==
    LET bad == {i \in DOMAIN order : CheckViolated(file, order[i])}
    IN  IF bad = {} THEN validation = Ok
        ELSE LET first == CHOOSE i \in bad : \A j \in bad : i <= j
             IN  /\ ~validation.is_valid
                 /\ validation.error_message.msg = CheckMessage(order[first])

\* C7 (as stated): the checks run in the order (a) required columns, (b)
\* non-empty, (c) symbols, (d) numeric, (e) dates, (f) at least 4 rows, and the
\* reason returned is the one of the earliest violated check in that order.
C7_OrderAsStated ==
    Validated => ReportsEarliestOf(<<"a", "b", "c", "d", "e", "f">>)

\* C7 (amended): the checks run in the order (b) non-empty, (a) required
\* columns, (c) symbols, (d) numeric, (e) dates, (f) at least 4 rows, and the
\* reason returned is the one of the earliest violated check in that order: a
\* table with zero rows and a missing column is reported as empty.
C7_OrderOfTheCode ==
    Validated => ReportsEarliestOf(<<"b", "a", "c", "d", "e", "f">>)

\* a validated table with zero rows and a missing required column
C7_Witness ==
    /\ Validated
    /\ Len(file.simbol) = 0
    /\ ~(RequiredColumns \subseteq file.columns)
    /\ validation.error_message.msg = "Data file is empty"

\* C8: every table the validator accepts holds records of both REXP and DIPD
\* and of no other symbol.
C8_AcceptedHasBothCompanies ==
    (Validated /\ validation.is_valid) => Range(file.simbol) = {"REXP", "DIPD"}

C10_SingleDefectNamed ==
    (Validated /\ edit.from_accepted) =>
        CASE edit.kind = "remove column" ->
                validation = Fail("Missing required columns", {edit.arg})
          [] edit.kind = "foreign row" ->
                validation = Fail("Invalid companies found", {edit.arg})
          [] edit.kind = "non-numeric" ->
                validation = Fail("Column should be numeric", {edit.arg})
          [] edit.kind = "reduce rows" /\ Len(file.simbol) >= 1 ->
                validation =
                    Fail("Insufficient data records (minimum 4 records required)", {})
          [] OTHER -> TRUE

\* an accepted table cut to three rows and validated again
C10_Witness ==
    /\ Validated
    /\ edit.from_accepted
    /\ edit.kind = "reduce rows"
    /\ Len(file.simbol) = 3
    /\ ~validation.is_valid

(***************************************************************************)
(* Claims about the validator on any file, checked under SpecTotal.        *)
(***************************************************************************)
\* the reasons validate_data_structure gives, none of them empty
ReasonTexts ==
    {"Data file is empty", "Missing required columns", "Invalid companies found",
     "Column should be numeric", "Report Date column has invalid date format",
     "Insufficient data records (minimum 4 records required)", "Error reading data file"}

\* C26: validate_data_structure is total: for a missing file, a zero-byte
\* file, an unreadable file and any table it returns a pair and does not
\* raise, and the pair is (True, None) or (False, reason) with a reason that
\* is not empty.
C26_ValidatorTotal ==
    pc = "validated" =>
        \/ validation.is_valid /\ validation.error_message = None
        \/ /\ ~validation.is_valid
           /\ validation.error_message # None
           /\ validation.error_message.msg \in ReasonTexts
           /\ validation.error_message.msg # ""

\* a file of bytes that are no table was validated: (False, Error reading
\* data file: ...)
C26_Witness ==
    /\ pc = "validated"
    /\ file.kind = "unreadable" /\ file.error = "ParserError"
    /\ validation = Fail("Error reading data file", {"ParserError"})

(***************************************************************************)
(* Claims about app.main and the pipeline it runs, checked under Spec.     *)
(***************************************************************************)
\* run has returned and main has gone through the validation after it
ValidatedAfterRun ==
    ppc = "done" /\ pc \notin {"in_run_1", "in_run_2", "validate", "revalidate"}

\* C16: with one raw document per company, each with exactly one marker
\* page, a run sends one request per document, parses two records and writes
\* a table of two rows in the order of their dates; validate_data_structure
\* on that table returns False with the reason "Insufficient data records
\* (minimum 4 records required)".
C16_TwoDocumentsTooFewRecords ==
    (raw = SmallRaw /\ ValidatedAfterRun) =>
        /\ Len(requests) = 2
        /\ \A s \in Symbols :
              /\ Len(RequestsOf(s)) = 1
              /\ RequestsOf(s)[1].file_name = FileNames[1]
              /\ RequestsOf(s)[1].target_page = OwnPage(s)
              /\ Len(parsed_data[s]) = 1
        /\ Len(run_df.rows) = 2
        /\ CellDayNumber(ReportDate(run_df.rows[1])) <= CellDayNumber(ReportDate(run_df.rows[2]))
        /\ validated.kind = "csv" /\ Len(validated.simbol) = 2
        /\ Range(validated.simbol) = Symbols
        /\ validation = Fail("Insufficient data records (minimum 4 records required)", {})

\* main at the prompt after the validation of the table of two rows
C16_Witness ==
    /\ raw = SmallRaw
    /\ pc = "confirm_reextract" /\ ppc = "done" /\ runs = 1
    /\ Len(requests) = 2
    /\ validated = file /\ Len(file.simbol) = 2
    /\ validation = Fail("Insufficient data records (minimum 4 records required)", {})

\* a step of main that calls LLMExtractionPipeline.run
InvokesPipeline == runs' # runs
\* the last thing main did with the table was a validation that failed
JustFailedValidation == validated # NotValidated /\ ~validation.is_valid

\* C17 (as stated): main invokes the pipeline only when the table file is
\* absent or empty or has just failed validation; with a table that exists, is
\* not empty and would pass validation, no invocation of main, whatever its
\* flags, runs the pipeline.
C17_OnlyWhenMissingOrInvalid ==
    [][InvokesPipeline =>
          /\ file.kind # "csv" \/ JustFailedValidation
          /\ validate_data_structure(file) # Ok]_vars

\* C17 (amended): main invokes the pipeline only when the table file is absent
\* or empty, when --force is given, or when the table has just failed
\* validation; without --force a table that exists, is not empty and would
\* pass validation is never extracted again.
C17_OnlyWhenMissingForcedOrInvalid ==
    [][InvokesPipeline =>
          /\ args.force \/ file.kind # "csv" \/ JustFailedValidation
          /\ ~args.force => validate_data_structure(file) # Ok]_vars

\* with --force the pipeline runs although the table that is there is valid
C17_Witness ==
    /\ args.force
    /\ pc = "in_run_1" /\ runs = 1
    /\ file = OldTable /\ validate_data_structure(file) = Ok
    /\ validated = NotValidated

\* the operator has answered Y to a prompt of this execution
AnsweredYes == \E i \in DOMAIN answers : answers[i][2] = "Y"
\* the last answer of the operator is N to "Delete invalid data and re-extract?"
DeclinedReextract ==
    /\ answers # <<>>
    /\ answers[Len(answers)] = <<"confirm_reextract", "N">>

\* C18: main deletes or overwrites the table file only after the operator has
\* answered Y to a prompt earlier in the same execution; the answer N to
\* "Delete invalid data and re-extract?" leaves the file as it is and ends
\* main without a consumer launched.
C18_NoChangeWithoutYes ==
    /\ [][file' # file => AnsweredYes]_vars
    /\ [][DeclinedReextract' /\ ~DeclinedReextract => file' = file]_vars
    /\ [][DeclinedReextract => file' = file]_vars
    /\ [](DeclinedReextract => pc = "exit" /\ exit_code = "1" /\ launched = "none")

\* the operator agreed to the first extraction, which replaced the table by
\* one that fails validation, and then declined the second
C18_Witness ==
    /\ answers = << <<"confirm_extract", "Y">>, <<"confirm_reextract", "N">> >>
    /\ runs = 1 /\ ppc = "done"
    /\ file = to_csv(run_df)
    /\ ~validation.is_valid
    /\ pc = "exit" /\ launched = "none"

\* run has raised and the call of run_extraction_pipeline is over
RunFailedAndLeft == raised # NotRaised /\ pc \notin {"in_run_1", "in_run_2"}

\* C19: run_extraction_pipeline lets no error of the pipeline escape to its
\* caller: after every failure of run (a missing document directory, a
\* transport failure, a parse failure, a write failure) it has returned False,
\* on which main exits with code 1.
C19_EveryFailureReturnsFalse ==
    RunFailedAndLeft => pc = "exit" /\ exit_code = "1"

(***************************************************************************)
(* Claims about the end of app.main, checked under SpecLive.               *)
(***************************************************************************)
\* the execution is over: a consumer runs, or the process has ended
Ended == pc \in {"consumer", "exit", "uncaught"}
\* how often the operator was asked the question of position here
Asked(here) == Len(SelectSeq(answers, LAMBDA a : a[1] = here))

\* C24: an execution of main runs the pipeline at most twice, once for
\* missing or forced data and once after an invalid table, and then launches
\* one consumer or exits; it does not ask for a re-extraction again, and a
\* table that is still invalid after the re-extraction ends it with code 1.
C24_AtMostTwoRunsThenEnds ==
    /\ [](runs <= 2 /\ Asked("confirm_extract") <= 1 /\ Asked("confirm_reextract") <= 1)
    /\ [][InvokesPipeline =>
             \/ pc = "call_run_1" /\ runs = 0
             \/ pc = "call_run_2" /\ JustFailedValidation /\ runs' = runs + 1]_vars
    /\ [][pc = "revalidate" /\ validate_data_structure(file) # Ok =>
             pc' = "exit" /\ exit_code' = "1" /\ launched' = "none"]_vars
    /\ [][launched # "none" => launched' = launched]_vars
    /\ [](pc = "consumer" <=> launched # "none")
    /\ [](Ended => ~ENABLED Next)
    /\ <>Ended

\* two runs, the table of the second still invalid: exit with code 1
C24_Witness ==
    /\ pc = "exit" /\ exit_code = "1"
    /\ runs = 2
    /\ answers = << <<"confirm_extract", "Y">>, <<"confirm_reextract", "Y">> >>
    /\ validate_data_structure(file) # Ok
    /\ launched = "none"

====
